---- MODULE Spec2Model ----
(***************************************************************************)
(* Verification Decision Engine of secure-kyc-chain (identiQ).             *)
(*                                                                         *)
(* The state is the content of the store (kyc_applications, documents,     *)
(* verifications, audit_records), the in-process ledger                    *)
(* (BlockchainService.chain), the in-process embedding cache               *)
(* (FaceDedupeService.embeddings_cache), the wall clock, and the requests  *)
(* in flight.  A request runs in its own session: it reads the committed   *)
(* rows, keeps what it read in locals, and writes the columns it assigned  *)
(* when it commits.  process and approve are split at their commits and at *)
(* the read-then-write of the unique number; the other handlers are one    *)
(* action each.                                                            *)
(***************************************************************************)
EXTENDS Integers, Sequences, FiniteSets, TLC

(***************************************************************************)
(* Bounds of the model.                                                    *)
(***************************************************************************)
MaxRequests == 4     \* requests received in one behaviour
MaxUkn == 2          \* size of the namespace generate_ukn draws from
MaxDocs == 2         \* documents uploaded per case
MaxDrift == 1        \* clock ticks that may pass between two reads of the clock
MaxClock == 2        \* the clock stops advancing here
TicksPerDay == 2     \* clock ticks in a day
MaxCandidates == 3   \* candidates handed to check_duplicate in the function specification
FrameLimit == 3      \* frames detect_liveness_from_video analyzes (30 in liveness_service.py:233)
MaxFrames == 5       \* frames of a video in the function specification
MaxTrees == 2        \* trees of the forest (n_estimators is 100 in ml_service.py:98)
MaxLeaf == 2         \* training samples of one class in a leaf of a tree

(***************************************************************************)
(* Program constants.                                                      *)
(***************************************************************************)
ValidityDays == 365            \* timedelta(days=365)
AutoApproveBelow == 30         \* risk_score < 0.3, in hundredths
HighRiskFrom == 50             \* risk_score >= 0.5, in hundredths
DefaultRiskScore == 50         \* risk_score = 0.5 when scoring raised
SimilarityThreshold == 85      \* similarity_threshold = 0.85, in hundredths

Cases == {1, 2}                \* applicants; an applicant has one case (user_id is unique)
Workers == {1, 2}              \* the two requests that may be in flight together
Ukns == 1..MaxUkn
NoUkn == 0
NoValue == 0 - 1               \* a NULL number column
NoEmbedding == <<>>
NoHash == <<>>
NoDoc == [doc_type |-> "NONE", extracted |-> TRUE, matches |-> TRUE]

Reviewers == {"rev1"}
\* Variant: the status check of process lets a VERIFIED case through
ProcessableStatusesWithVerified == {"UPLOADED", "DRAFT", "REGISTERED", "VERIFIED"}
ProcessableStatuses == {"UPLOADED", "DRAFT", "REGISTERED"}
\* Variant: the status check of approve and reject lets a FLAGGED case through
ReviewableStatusesWithFlagged == {"IN_REVIEW", "PROCESSING", "REQUEST_INFO", "FLAGGED"}
ReviewableStatuses == {"IN_REVIEW", "PROCESSING", "REQUEST_INFO"}

\* What an upload carries: the document kind and what the providers will make of it
\* (extracted: the OCR of the upload returned fields, not {}; matches: the fields on the
\* document are those the applicant entered; is_live: the liveness verdict of a selfie;
\* is_suspicious: the transaction analysis verdict).
Doc(doc_type, extracted, matches, is_live, is_suspicious) ==
    [doc_type |-> doc_type, extracted |-> extracted, matches |-> matches,
     is_live |-> is_live, is_suspicious |-> is_suspicious]

DocInputs ==
    { Doc("PASSPORT", TRUE, TRUE, TRUE, FALSE),
      Doc("PASSPORT", TRUE, FALSE, TRUE, FALSE),
      Doc("PASSPORT", FALSE, TRUE, TRUE, FALSE),
      Doc("SELFIE", TRUE, TRUE, TRUE, FALSE),
      Doc("SELFIE", TRUE, TRUE, FALSE, FALSE),
      Doc("BANK_STATEMENT", TRUE, TRUE, TRUE, TRUE) }

\* What the providers return inside process.
Embeddings == { <<1, 0>>, <<3, 4>> }
FaceMatchScores == {90}
RiskScores == {10, 30}

\* The fingerprints of the function specification of check_duplicate: against <<1, 0>>
\* their cosines are 1, 0.6, 0.6 (a tie), 12/13 and, for the zero vector, 0 by definition.
Vectors == { <<1, 0>>, <<3, 4>>, <<6, 8>>, <<12, 5>>, <<0, 0>> }

VARIABLES
    apps,              \* kyc_applications by applicant: the applicant's row (status ABSENT:
                       \* no row) and, in rows, how many rows hold the applicant's user_id
    documents,         \* documents of each case, in upload order
    verifications,     \* Verification rows of each case, in insertion order
    audit_records,     \* AuditRecord rows of each case, in insertion order
    chain,             \* BlockchainService.chain
    embeddings_cache,  \* FaceDedupeService.embeddings_cache
    now,               \* datetime.now()
    req,               \* the requests in flight, one slot per worker
    reqs,              \* the number of requests received
    probe,             \* the arguments of a call of a function on its own
    answer,            \* what that call returned
    consent_records    \* ConsentRecord rows, in insertion order; a row's id is its place

vars == <<apps, documents, verifications, audit_records, chain, embeddings_cache, now,
          req, reqs, probe, answer, consent_records>>

NoApp ==
    [rows |-> 0, status |-> "ABSENT", ukn |-> NoUkn, risk_score |-> NoValue,
     face_match_score |-> NoValue, face_embedding_hash |-> NoHash,
     reviewer_comment |-> <<>>, user_details |-> FALSE,
     blockchain_tx_hash |-> <<>>, verified_at |-> NoValue, expires_at |-> NoValue]

NewApp == [NoApp EXCEPT !.rows = 1, !.status = "REGISTERED"]

Idle ==
    [pc |-> "idle", kyc |-> 0, result |-> "", id_doc |-> NoDoc, selfie |-> FALSE,
     user_details |-> FALSE, dup |-> NoUkn, risk |-> NoValue, scored |-> FALSE,
     face |-> NoValue, ukn |-> NoUkn, gen |-> FALSE, reviewer |-> "", comment |-> "",
     consent |-> 0]

Done(result, c) == [Idle EXCEPT !.result = result, !.kyc = c]

CacheKeys == { <<"id", c>> : c \in Cases } \cup { <<"ukn", u>> : u \in Ukns }

NoProbe == [new_embedding |-> NoEmbedding, existing_embeddings |-> <<>>]
NoAnswer == [is_duplicate |-> FALSE, matched_ukn |-> NoValue, similarity |-> <<0, 1>>]

Store0 ==
    /\ apps = [c \in Cases |-> NoApp]
    /\ documents = [c \in Cases |-> <<>>]
    /\ verifications = [c \in Cases |-> <<>>]
    /\ audit_records = [c \in Cases |-> <<>>]
    /\ chain = <<>>
    /\ embeddings_cache = [k \in CacheKeys |-> NoEmbedding]
    /\ now = 0
    /\ req = [w \in Workers |-> Idle]
    /\ reqs = 0
    /\ consent_records = <<>>

Init == Store0 /\ probe = NoProbe /\ answer = NoAnswer

\* A Verification row
Event(type, by) == [event_type |-> type, performed_by |-> by]

NoReviewer == ""

\* Variant: the audit trail keeps one row per entity, the latest
log_event_latest_only(log, event_type, reviewer_id, performed_by) ==
    <<[event_type |-> event_type, reviewer_id |-> reviewer_id]>>

\* AuditService.log_event: the row keeps the event (in its hash) and the details, of
\* which the model keeps the reviewer_id entry; performed_by is not stored
log_event(log, event_type, reviewer_id, performed_by) ==
    Append(log, [event_type |-> event_type, reviewer_id |-> reviewer_id])


(***************************************************************************)
(* Duplicate Identity Detector (face_dedupe_service.py).                   *)
(*                                                                         *)
(* A similarity is kept exact: cos = dot / (|v1| |v2|) is the pair         *)
(* <<sgn(dot) * dot^2, |v1|^2 * |v2|^2>>, the image of the cosine under    *)
(* the increasing map x -> sgn(x) * x^2, so that comparisons of cosines    *)
(* are comparisons of these fractions.                                     *)
(***************************************************************************)
Dot(v1, v2) == v1[1] * v2[1] + v1[2] * v2[2]
NormSq(v) == Dot(v, v)
ZeroSim == <<0, 1>>

\* FaceDedupeService._cosine_similarity
cosine_similarity(v1, v2) ==
    IF NormSq(v1) = 0 \/ NormSq(v2) = 0
    THEN ZeroSim
    ELSE LET d == Dot(v1, v2)
         IN <<(IF d < 0 THEN 0 - d * d ELSE d * d), NormSq(v1) * NormSq(v2)>>

SimLess(a, b) == a[1] * b[2] < b[1] * a[2]
SimEq(a, b) == a[1] * b[2] = b[1] * a[2]

\* max_similarity >= self.similarity_threshold
AtLeastThreshold(sim) ==
    sim[1] * 100 * 100 >= SimilarityThreshold * SimilarityThreshold * sim[2]

\* max(similarities): the first of the largest elements
RECURSIVE MaxOf(_, _, _)
MaxOf(sims, best, i) ==
    IF i > Len(sims) THEN best
    ELSE MaxOf(sims, (IF SimLess(best, sims[i]) THEN sims[i] ELSE best), i + 1)

\* Variant: the last index holding an equal value
LastIndexFrom(sims, m, i) ==
    CHOOSE k \in i..Len(sims) :
        SimEq(sims[k], m) /\ \A j \in (k + 1)..Len(sims) : ~SimEq(sims[j], m)

\* similarities.index(max_similarity): the first index holding an equal value
RECURSIVE IndexFrom(_, _, _)
IndexFrom(sims, m, i) ==
    IF SimEq(sims[i], m) THEN i ELSE IndexFrom(sims, m, i + 1)

\* FaceDedupeService.check_duplicate
check_duplicate(new_embedding, existing_ukns, existing_embeddings) ==
    IF existing_embeddings = <<>>
    THEN [is_duplicate |-> FALSE, matched_ukn |-> NoUkn, similarity |-> ZeroSim]
    ELSE LET similarities == [i \in 1..Len(existing_embeddings) |->
                                 cosine_similarity(new_embedding, existing_embeddings[i])]
             max_similarity == MaxOf(similarities, similarities[1], 2)
             max_index == IndexFrom(similarities, max_similarity, 1)
         IN IF AtLeastThreshold(max_similarity)
            THEN [is_duplicate |-> TRUE, matched_ukn |-> existing_ukns[max_index],
                  similarity |-> max_similarity]
            ELSE [is_duplicate |-> FALSE, matched_ukn |-> NoUkn,
                  similarity |-> max_similarity]

\* FaceDedupeService.generate_embedding_hash
generate_embedding_hash(embedding) == <<"sha256", embedding>>

\* FaceDedupeService.store_embedding
store_embedding(cache, key, embedding) == [cache EXCEPT ![key] = embedding]

\* FaceDedupeService.get_embedding
get_embedding(cache, key) == cache[key]


(***************************************************************************)
(* Helpers of the handlers.                                                *)
(***************************************************************************)
Min(S) == CHOOSE x \in S : \A y \in S : x <= y

CaseSeq == <<1, 2>>

\* next((d for d in documents if d.doc_type != "SELFIE"), None)
IdDocIndex(docs) == Min({ i \in 1..Len(docs) : docs[i].doc_type # "SELFIE" })

IdDocOf(docs) ==
    IF \A i \in 1..Len(docs) : docs[i].doc_type = "SELFIE" THEN NoDoc
    ELSE docs[IdDocIndex(docs)]

\* ValidationService.validate_user_details on what was extracted from a document: with
\* nothing extracted the name is "not found in document" and the validation fails
validate_user_details(extracted, matches) == extracted /\ matches

\* next((d for d in documents if d.doc_type == "SELFIE"), None) is not None
HasSelfie(docs) == \E i \in 1..Len(docs) : docs[i].doc_type = "SELFIE"

\* generate_ukn followed by the loop "while a row holds this ukn: generate_ukn()":
\* the numbers the loop can end with
FreeUkns == { u \in Ukns : \A c \in Cases : apps[c].ukn # u }

\* Variant: a store without the unique index
UniqueViolationNever(c, u) == FALSE

\* The store's unique index on kyc_applications.ukn (models.py: unique=True): writing
\* ukn u to the row of case c is refused when another row holds u.
UniqueViolation(c, u) == \E c2 \in Cases : c2 # c /\ apps[c2].ukn = u

\* {doc.doc_type: doc.file_hash for doc in kyc_app.documents}: the files of case c,
\* which no other case holds
DocumentHashes(c) == <<"files", c, Len(documents[c])>>

\* BlockchainService._generate_tx_hash
generate_tx_hash(data) == <<"0x", data>>

\* BlockchainService.create_block: the block it appends to the chain; timestamp is
\* its read of the clock, datetime.utcnow()
create_block(ukn, document_hashes, face_embedding_hash, verification_data, issuer, timestamp) ==
    LET block_data == [ukn |-> ukn, document_hashes |-> document_hashes,
                       face_embedding_hash |-> face_embedding_hash,
                       verification_data |-> verification_data,
                       issuer |-> issuer, timestamp |-> timestamp]
    IN [tx_hash |-> generate_tx_hash(block_data), data |-> block_data]

\* Variant: every block is anchored in the name of the system
BlockForSystem(c, ukn, face_embedding_hash, issuer, d) ==
    create_block(ukn, DocumentHashes(c), face_embedding_hash,
                 [reviewer_id |-> "system", verified_at |-> now], "system", now + d)

\* The block process or approve anchors for case c: verified_at was read from the clock
\* at now, the ledger is called d ticks later
BlockFor(c, ukn, face_embedding_hash, issuer, d) ==
    create_block(ukn, DocumentHashes(c), face_embedding_hash,
                 [reviewer_id |-> issuer, verified_at |-> now], issuer, now + d)

\* The ticks that may pass between two reads of datetime.now()
Drifts ==
    IF now >= MaxClock THEN {0}
    ELSE 0..(IF MaxClock - now < MaxDrift THEN MaxClock - now ELSE MaxDrift)

Validity == ValidityDays * TicksPerDay

(***************************************************************************)
(* kyc.py: create_kyc_application                                          *)
(***************************************************************************)
\* The call succeeds for an applicant without a row; with a row it is refused (by the
\* check of lines 39-48, or by the unique index on user_id) and changes nothing.
create_kyc_application(c) ==
    /\ apps[c].status = "ABSENT"
    /\ apps' = [apps EXCEPT ![c] = NewApp]
    /\ UNCHANGED <<documents, verifications, audit_records, chain, embeddings_cache, now, req>>

(***************************************************************************)
(* document_generator.py: generate_document_requirements                   *)
(***************************************************************************)
generate_document_requirements(c) ==
    /\ apps' = [apps EXCEPT ![c] =
                  [(IF apps[c].status = "ABSENT" THEN NewApp ELSE @)
                      EXCEPT !.user_details = TRUE]]
    /\ UNCHANGED <<documents, verifications, audit_records, chain, embeddings_cache, now, req>>

(***************************************************************************)
(* kyc.py: upload_document                                                 *)
(***************************************************************************)
UploadWrites(c, d) ==
    /\ Len(documents[c]) < MaxDocs
    /\ LET app == IF apps[c].status = "ABSENT" THEN NewApp ELSE apps[c]
           is_valid == IF d.doc_type # "SELFIE" /\ app.user_details
                       THEN validate_user_details(d.extracted, d.matches) ELSE TRUE
           s1 == IF app.status \in {"REGISTERED", "DRAFT"} THEN "UPLOADED" ELSE app.status
           s2 == IF ~is_valid THEN "IN_REVIEW" ELSE s1
           txn == d.doc_type \in {"BANK_STATEMENT", "UTILITY_BILL"} /\ d.is_suspicious
           s3 == IF txn THEN "FLAGGED" ELSE s2
           c3 == IF txn THEN <<"Transaction document flagged">> ELSE app.reviewer_comment
           notlive == d.doc_type = "SELFIE" /\ ~d.is_live
           s4 == IF notlive THEN "FLAGGED" ELSE s3
           c4 == IF notlive THEN Append(c3, "Liveness check failed") ELSE c3
       IN /\ apps' = [apps EXCEPT ![c] =
                        [app EXCEPT !.status = s4, !.reviewer_comment = c4]]
          /\ documents' = [documents EXCEPT ![c] =
                             Append(@, [doc_type |-> d.doc_type, extracted |-> d.extracted,
                                        matches |-> d.matches])]
          /\ verifications' = [verifications EXCEPT ![c] =
                                 Append(@, Event("document_upload", "applicant"))]
          /\ audit_records' = [audit_records EXCEPT ![c] =
                                 log_event(@, "document_upload", NoReviewer, "applicant")]
    /\ UNCHANGED <<chain, embeddings_cache, now>>

upload_document(c, d) == UploadWrites(c, d) /\ UNCHANGED req

(***************************************************************************)
(* kyc.py: process_kyc_application                                         *)
(***************************************************************************)
\* Variant: process without the check for documents
ProcessLoadWithoutDocumentsCheck(w, c) ==
    /\ req[w].pc = "idle"
    /\ req' = [req EXCEPT ![w] =
                 IF apps[c].status = "ABSENT" THEN Done("process: not found", c)
                 ELSE IF apps[c].status \notin ProcessableStatuses
                      THEN Done("process: already processed", c)
                 ELSE [Idle EXCEPT !.pc = "p_validate", !.kyc = c,
                                   !.id_doc = IdDocOf(documents[c]),
                                   !.selfie = HasSelfie(documents[c]),
                                   !.user_details = apps[c].user_details]]
    /\ UNCHANGED <<apps, documents, verifications, audit_records, chain,
                   embeddings_cache, now>>

\* lines 341-364: load the case, check its status, load its documents
ProcessLoad(w, c) ==
    /\ req[w].pc = "idle"
    /\ req' = [req EXCEPT ![w] =
                 IF apps[c].status = "ABSENT" THEN Done("process: not found", c)
                 ELSE IF apps[c].status \notin ProcessableStatuses
                      THEN Done("process: already processed", c)
                 ELSE IF documents[c] = <<>> THEN Done("process: no documents", c)
                 ELSE [Idle EXCEPT !.pc = "p_validate", !.kyc = c,
                                   !.id_doc = IdDocOf(documents[c]),
                                   !.selfie = HasSelfie(documents[c]),
                                   !.user_details = apps[c].user_details]]
    /\ UNCHANGED <<apps, documents, verifications, audit_records, chain,
                   embeddings_cache, now>>

\* The outcomes of the OCR call of process: fields (TRUE), or {} (FALSE)
OcrOutcomes == BOOLEAN

\* lines 375-386: the fields of the identity document, extracted again when the
\* document holds none
Reextracts(r) == r.id_doc # NoDoc /\ r.user_details /\ ~r.id_doc.extracted

\* lines 389-393: the verdict of the Claim Validator in process
ValidatorFails(r, ocr) ==
    /\ r.id_doc # NoDoc /\ r.user_details
    /\ ~validate_user_details(IF Reextracts(r) THEN ocr ELSE r.id_doc.extracted,
                              r.id_doc.matches)

\* lines 397-399: what the rejection writes on the case
Rejected(app) ==
    [app EXCEPT !.status = "REJECTED",
                !.reviewer_comment = <<"Application rejected: Details do not match">>]

\* Variant: the rejection is written but the call goes on
ProcessValidateGoesOn(w, ocr) ==
    LET r == req[w]
        c == r.kyc
    IN /\ r.pc = "p_validate"
       /\ Reextracts(r) \/ ocr
       /\ documents' = IF Reextracts(r) /\ ocr
                       THEN [documents EXCEPT ![c][IdDocIndex(documents[c])].extracted = TRUE]
                       ELSE documents
       /\ apps' = [apps EXCEPT ![c] = IF ValidatorFails(r, ocr) THEN Rejected(@)
                                      ELSE [@ EXCEPT !.status = "PROCESSING"]]
       /\ verifications' = verifications
       /\ req' = [req EXCEPT ![w].pc = "p_signals"]
       /\ UNCHANGED <<audit_records, chain, embeddings_cache, now>>

\* lines 366-430: claim validation on the identity document; REJECTED, or PROCESSING.
\* Without a second extraction there is no OCR call, and ocr is TRUE.
ProcessValidate(w, ocr) ==
    LET r == req[w]
        c == r.kyc
    IN /\ r.pc = "p_validate"
       /\ Reextracts(r) \/ ocr
       /\ documents' = IF Reextracts(r) /\ ocr
                       THEN [documents EXCEPT ![c][IdDocIndex(documents[c])].extracted = TRUE]
                       ELSE documents
       /\ IF ValidatorFails(r, ocr)
          THEN /\ apps' = [apps EXCEPT ![c] = Rejected(@)]
               /\ verifications' = [verifications EXCEPT ![c] =
                                      Append(@, Event("rejection", "system"))]
               /\ req' = [req EXCEPT ![w] = Done("process: rejected", c)]
          ELSE /\ apps' = [apps EXCEPT ![c].status = "PROCESSING"]
               /\ verifications' = verifications
               /\ req' = [req EXCEPT ![w].pc = "p_signals"]
       /\ UNCHANGED <<audit_records, chain, embeddings_cache, now>>

\* lines 501-519: the numbers of the verified cases, the embeddings found for them (stored
\* holds what get_embedding returned for each, NoEmbedding for None), the check
MatchedUkn(embedding, existing_ukns, stored) ==
    LET IsStored(e) == e # NoEmbedding
        existing_embeddings == SelectSeq(stored, IsStored)
    IN IF existing_embeddings # <<>>
       THEN check_duplicate(embedding, existing_ukns, existing_embeddings).matched_ukn
       ELSE NoUkn

\* lines 491-519: the verified cases, their numbers, their stored embeddings, the check
DuplicateUkn(c, cache, embedding) ==
    LET IsVerified(c2) == /\ apps[c2].status = "VERIFIED"
                          /\ apps[c2].face_embedding_hash # NoHash
                          /\ apps[c2].ukn # NoUkn
                          /\ c2 # c
        verified_apps == SelectSeq(CaseSeq, IsVerified)
        existing_ukns == [i \in 1..Len(verified_apps) |-> apps[verified_apps[i]].ukn]
        stored == [i \in 1..Len(verified_apps) |->
                      get_embedding(cache, <<"ukn", apps[verified_apps[i]].ukn>>)]
    IN IF verified_apps # <<>> THEN MatchedUkn(embedding, existing_ukns, stored) ELSE NoUkn

\* lines 432-609: biometric match, fingerprint, duplicate check, risk score. A provider
\* that raises is a NoValue or NoEmbedding input: a failed biometric match leaves the
\* whole block of lines 437-564 (except Exception), a failed fingerprint extraction its
\* inner block, a failed image quality or risk model the block of lines 567-609.
ProcessSignals(w, risk, fm, emb) ==
    LET r == req[w]
        c == r.kyc
    IN /\ r.pc = "p_signals"
       /\ LET used == IF risk = NoValue THEN DefaultRiskScore ELSE risk
          IN IF r.selfie /\ r.id_doc # NoDoc /\ fm # NoValue
             THEN LET cache == IF emb = NoEmbedding THEN embeddings_cache
                               ELSE store_embedding(embeddings_cache, <<"id", c>>, emb)
                      dup == IF emb = NoEmbedding THEN NoUkn ELSE DuplicateUkn(c, cache, emb)
                      ev == IF emb = NoEmbedding THEN <<>>
                            ELSE <<Event("face_embedding_extracted", "system")>>
                  IN /\ apps' = [apps EXCEPT ![c].face_match_score = fm,
                                             ![c].face_embedding_hash =
                                                 IF emb = NoEmbedding THEN @
                                                 ELSE generate_embedding_hash(emb)]
                     /\ embeddings_cache' = cache
                     /\ verifications' = [verifications EXCEPT ![c] =
                                            Append(@ \o ev, Event("face_match", "system"))]
                     /\ audit_records' = [audit_records EXCEPT ![c] =
                                            log_event(@, "face_match", NoReviewer, "system")]
                     /\ req' = [req EXCEPT ![w].pc = "p_decide", ![w].dup = dup,
                                           ![w].face = fm, ![w].risk = used,
                                           ![w].scored = (risk # NoValue)]
             ELSE /\ fm = NoValue /\ emb = NoEmbedding
                  /\ req' = [req EXCEPT ![w].pc = "p_decide", ![w].risk = used,
                                        ![w].scored = (risk # NoValue)]
                  /\ UNCHANGED <<apps, embeddings_cache, verifications, audit_records>>
       /\ UNCHANGED <<documents, chain, now>>

\* The columns process assigned before its decision and writes with it
PendingWrites(app, r) ==
    [app EXCEPT !.risk_score = IF r.scored THEN r.risk ELSE @,
                !.reviewer_comment = IF r.dup # NoUkn
                                     THEN <<"Potential duplicate detected">> ELSE @]

\* Variant: auto-approval up to and including the threshold
NextStatusInclusive(duplicate_ukn, risk_score) ==
    IF duplicate_ukn # NoUkn THEN "IN_REVIEW"
    ELSE IF risk_score <= AutoApproveBelow THEN "VERIFIED"
    ELSE "IN_REVIEW"

\* lines 613-696: the status the decision picks
NextStatus(duplicate_ukn, risk_score) ==
    IF duplicate_ukn # NoUkn THEN "IN_REVIEW"
    ELSE IF risk_score < AutoApproveBelow THEN "VERIFIED"
    ELSE IF risk_score >= HighRiskFrom THEN "IN_REVIEW"
    ELSE "IN_REVIEW"

\* lines 611-627 and 691-715: the decision; IN_REVIEW, or the draw of a unique number
ProcessDecide(w) ==
    LET r == req[w]
        c == r.kyc
    IN /\ r.pc = "p_decide"
       /\ IF NextStatus(r.dup, r.risk) = "VERIFIED"
          THEN /\ \E u \in FreeUkns : req' = [req EXCEPT ![w].pc = "p_verify", ![w].ukn = u]
               /\ UNCHANGED <<apps, verifications>>
          ELSE /\ apps' = [apps EXCEPT ![c] =
                             [PendingWrites(@, r) EXCEPT
                                 !.status = NextStatus(r.dup, r.risk)]]
               /\ verifications' = [verifications EXCEPT ![c] =
                                      Append(@, Event("processing_complete", "system"))]
               /\ req' = [req EXCEPT ![w] = Done("process: ok", c)]
       /\ UNCHANGED <<documents, audit_records, chain, embeddings_cache, now>>

\* The outcomes of a call of the ledger: a block (TRUE), or an exception (FALSE)
AnchorOutcomes == BOOLEAN

\* create_block raises: the handler ends on the exception, before the commit that would
\* have written its decision
AnchoringFails(w, result) ==
    /\ req' = [req EXCEPT ![w] = Done(result, req[w].kyc)]
    /\ UNCHANGED <<apps, verifications, audit_records, chain, now>>

\* lines 622-626, the loop of ProcessDecide turn by turn: generate_ukn() draws u, the
\* look-up finds a row holding u (the loop goes round) or none (u is the number).
\* approve_kyc_application has the same loop (admin.py 168-172).
ProcessDraw(w, u) ==
    LET r == req[w]
    IN /\ r.pc = "p_decide"
       /\ NextStatus(r.dup, r.risk) = "VERIFIED"
       /\ req' = [req EXCEPT ![w].ukn = u,
                             ![w].pc = IF \E c2 \in Cases : apps[c2].ukn = u
                                       THEN "p_decide" ELSE "p_verify"]
       /\ UNCHANGED <<apps, documents, verifications, audit_records, chain,
                      embeddings_cache, now>>

\* lines 627-715: auto-approval
ProcessVerify(w, anchors) ==
    LET r == req[w]
        c == r.kyc
    IN /\ r.pc = "p_verify"
       /\ IF ~anchors THEN AnchoringFails(w, "process: anchoring failed")
          ELSE IF UniqueViolation(c, r.ukn)
          THEN \* IntegrityError at the flush: before create_block when the session
               \* autoflushes, after it when it flushes at the commit of log_event
               /\ \E anchored \in BOOLEAN :
                     chain' = IF anchored
                              THEN Append(chain, BlockFor(c, r.ukn, apps[c].face_embedding_hash,
                                                     "system", 0))
                              ELSE chain
               /\ req' = [req EXCEPT ![w] = Done("process: integrity error", c)]
               /\ UNCHANGED <<apps, verifications, audit_records, now>>
          ELSE \E d \in Drifts :
               LET block == BlockFor(c, r.ukn, apps[c].face_embedding_hash, "system", d)
               IN /\ apps' = [apps EXCEPT ![c] =
                                [PendingWrites(@, r) EXCEPT
                                    !.ukn = r.ukn,
                                    !.status = "VERIFIED",
                                    !.verified_at = now,
                                    !.expires_at = (now + d) + Validity,
                                    !.reviewer_comment = <<"Auto-approved: Low risk score">>,
                                    !.blockchain_tx_hash = block.tx_hash]]
                  /\ chain' = Append(chain, block)
                  /\ verifications' = [verifications EXCEPT ![c] =
                                         @ \o <<Event("auto_verification", "system"),
                                                Event("processing_complete", "system")>>]
                  /\ audit_records' = [audit_records EXCEPT ![c] =
                                         log_event(@, "auto_verification", "system", "system")]
                  /\ now' = now + d
                  /\ req' = [req EXCEPT ![w] = Done("process: ok", c)]
       /\ UNCHANGED <<documents, embeddings_cache>>


(***************************************************************************)
(* admin.py: approve_kyc_application                                       *)
(***************************************************************************)
ApproveComments == {""}
\* RejectRequest: comment is a required str; a body without it is NoComment
NoComment == "<missing>"
RejectComments == {NoComment, "", "not acceptable"}

\* lines 149-172: load the case, check its status, draw a unique number if it has none
ApproveLoad(w, c, reviewer, comment) ==
    /\ req[w].pc = "idle"
    /\ IF apps[c].status = "ABSENT"
       THEN req' = [req EXCEPT ![w] = Done("approve: not found", c)]
       ELSE IF apps[c].status \notin ReviewableStatuses
       THEN req' = [req EXCEPT ![w] = Done("approve: cannot approve", c)]
       ELSE IF apps[c].ukn = NoUkn
       THEN \E u \in FreeUkns :
               req' = [req EXCEPT ![w] =
                         [Idle EXCEPT !.pc = "a_commit", !.kyc = c, !.ukn = u, !.gen = TRUE,
                                      !.reviewer = reviewer, !.comment = comment]]
       ELSE req' = [req EXCEPT ![w] =
                      [Idle EXCEPT !.pc = "a_commit", !.kyc = c, !.ukn = apps[c].ukn,
                                   !.reviewer = reviewer, !.comment = comment]]
    /\ UNCHANGED <<apps, documents, verifications, audit_records, chain,
                   embeddings_cache, now>>

\* lines 173-242: VERIFIED, the dates, the ledger record, the event, the audit record
ApproveCommit(w, anchors) ==
    LET r == req[w]
        c == r.kyc
    IN /\ r.pc = "a_commit"
       /\ IF ~anchors THEN AnchoringFails(w, "approve: anchoring failed")
          ELSE IF r.gen /\ UniqueViolation(c, r.ukn)
          THEN /\ \E anchored \in BOOLEAN :
                     chain' = IF anchored
                              THEN Append(chain, BlockFor(c, r.ukn, apps[c].face_embedding_hash,
                                                     r.reviewer, 0))
                              ELSE chain
               /\ req' = [req EXCEPT ![w] = Done("approve: integrity error", c)]
               /\ UNCHANGED <<apps, verifications, audit_records, now>>
          ELSE \E d \in Drifts :
               LET block == BlockFor(c, r.ukn, apps[c].face_embedding_hash, r.reviewer, d)
               IN /\ apps' = [apps EXCEPT ![c] =
                                [@ EXCEPT
                                    !.ukn = IF r.gen THEN r.ukn ELSE @,
                                    !.status = "VERIFIED",
                                    !.reviewer_comment =
                                        IF r.comment = "" THEN <<>> ELSE <<r.comment>>,
                                    !.verified_at = now,
                                    !.expires_at = (now + d) + Validity,
                                    !.blockchain_tx_hash = block.tx_hash]]
                  /\ chain' = Append(chain, block)
                  /\ verifications' = [verifications EXCEPT ![c] =
                                         Append(@, Event("verification", r.reviewer))]
                  /\ audit_records' = [audit_records EXCEPT ![c] =
                                         log_event(@, "verification", r.reviewer, r.reviewer)]
                  /\ now' = now + d
                  /\ req' = [req EXCEPT ![w] = Done("approve: ok", c)]
       /\ UNCHANGED <<documents, embeddings_cache>>

(***************************************************************************)
(* admin.py: reject_kyc_application                                        *)
(***************************************************************************)
\* The handler holds no await and commits once: it is one step. A body without comment
\* is refused by the request schema before the handler runs.
reject_kyc_application(w, c, reviewer, comment) ==
    /\ req[w].pc = "idle"
    /\ IF comment = NoComment \/ apps[c].status \notin ReviewableStatuses
       THEN /\ req' = [req EXCEPT ![w] =
                         IF comment = NoComment THEN Done("reject: comment required", c)
                         ELSE IF apps[c].status = "ABSENT" THEN Done("reject: not found", c)
                         ELSE Done("reject: cannot reject", c)]
            /\ UNCHANGED <<apps, verifications, audit_records>>
       ELSE /\ apps' = [apps EXCEPT ![c].status = "REJECTED",
                                    ![c].reviewer_comment =
                                        IF comment = ""
                                        THEN <<"Application rejected by reviewer">>
                                        ELSE <<comment>>]
            /\ verifications' = [verifications EXCEPT ![c] =
                                   Append(@, Event("rejection", reviewer))]
            /\ audit_records' = [audit_records EXCEPT ![c] =
                                   log_event(@, "rejection", reviewer, reviewer)]
            /\ req' = [req EXCEPT ![w] = Done("reject: ok", c)]
    /\ UNCHANGED <<documents, chain, embeddings_cache, now>>

(***************************************************************************)
(* The system.  The handlers above leave reqs alone: receiving a request   *)
(* and counting it is the environment's part, stated here.                 *)
(*                                                                         *)
(* Spec: every handler, every input, the requests served one at a time, as *)
(* by one event loop whose handlers do not yield.                          *)
(* SpecConcurrent: two requests are served together and interleave at      *)
(* their commits, as by two server processes over one store; the uploads   *)
(* are passports that pass validation.                                     *)
(* SpecDuplicate: applicants who upload a passport and a live selfie and   *)
(* are processed, one request at a time.                                   *)
(***************************************************************************)
AllIdle == \A w \in Workers : req[w].pc = "idle"

Signals == RiskScores \cup {NoValue}
Faces == FaceMatchScores \cup {NoValue}
Prints == Embeddings \cup {NoEmbedding}

\* A request is received (and served alone: no other request is in flight)
Received(n, A) ==
    reqs < n /\ reqs' = reqs + 1 /\ A /\ UNCHANGED <<probe, answer, consent_records>>
Alone(n, A) == AllIdle /\ Received(n, A)
\* A request in flight takes its next step
Step(A) == A /\ UNCHANGED <<reqs, probe, answer, consent_records>>

Next ==
    \/ \E c \in Cases : Alone(MaxRequests, create_kyc_application(c))
    \/ \E c \in Cases : Alone(MaxRequests, generate_document_requirements(c))
    \/ \E c \in Cases, d \in DocInputs : Alone(MaxRequests, upload_document(c, d))
    \/ \E c \in Cases : Alone(MaxRequests, ProcessLoad(1, c))
    \/ \E c \in Cases, rv \in Reviewers, cm \in ApproveComments :
          Alone(MaxRequests, ApproveLoad(1, c, rv, cm))
    \/ \E c \in Cases, rv \in Reviewers, cm \in RejectComments :
          Alone(MaxRequests, reject_kyc_application(1, c, rv, cm))
    \/ \E ocr \in OcrOutcomes : Step(ProcessValidate(1, ocr))
    \/ \E risk \in Signals, fm \in Faces, emb \in Prints :
          Step(ProcessSignals(1, risk, fm, emb))
    \/ Step(ProcessDecide(1))
    \/ \E anchors \in AnchorOutcomes : Step(ProcessVerify(1, anchors))
    \/ \E anchors \in AnchorOutcomes : Step(ApproveCommit(1, anchors))

Spec == Init /\ [][Next]_vars

PassportOk == Doc("PASSPORT", TRUE, TRUE, TRUE, FALSE)
SelfieLive == Doc("SELFIE", TRUE, TRUE, TRUE, FALSE)

NextConcurrent ==
    \/ \E c \in Cases : Received(MaxRequests, upload_document(c, PassportOk))
    \/ \E w \in Workers, c \in Cases : Received(MaxRequests, ProcessLoad(w, c))
    \/ \E w \in Workers, c \in Cases, rv \in Reviewers, cm \in ApproveComments :
          Received(MaxRequests, ApproveLoad(w, c, rv, cm))
    \/ \E w \in Workers, c \in Cases, rv \in Reviewers, cm \in RejectComments :
          Received(MaxRequests, reject_kyc_application(w, c, rv, cm))
    \/ \E w \in Workers, ocr \in OcrOutcomes : Step(ProcessValidate(w, ocr))
    \/ \E w \in Workers, risk \in Signals : Step(ProcessSignals(w, risk, NoValue, NoEmbedding))
    \/ \E w \in Workers : Step(ProcessDecide(w))
    \/ \E w \in Workers, anchors \in AnchorOutcomes : Step(ProcessVerify(w, anchors))
    \/ \E w \in Workers, anchors \in AnchorOutcomes : Step(ApproveCommit(w, anchors))

SpecConcurrent == Init /\ [][NextConcurrent]_vars

NextDuplicate ==
    \/ \E c \in Cases, d \in {PassportOk, SelfieLive} :
          Alone(MaxRequests + 2, upload_document(c, d))
    \/ \E c \in Cases : Alone(MaxRequests + 2, ProcessLoad(1, c))
    \/ \E ocr \in OcrOutcomes : Step(ProcessValidate(1, ocr))
    \/ \E risk \in Signals, fm \in Faces, emb \in Embeddings :
          Step(ProcessSignals(1, risk, fm, emb))
    \/ Step(ProcessDecide(1))
    \/ \E anchors \in AnchorOutcomes : Step(ProcessVerify(1, anchors))

SpecDuplicate == Init /\ [][NextDuplicate]_vars

(***************************************************************************)
(* SpecIssue: the issuance loop turn by turn. Passports are uploaded and   *)
(* processed at low risk, two requests at a time; a request that is being  *)
(* served goes on being served (weak fairness of its steps), the arrival   *)
(* of requests is not fair.                                                *)
(***************************************************************************)
ServeIssue ==
    \/ \E w \in Workers : Step(ProcessValidate(w, TRUE))
    \/ \E w \in Workers : Step(ProcessSignals(w, AutoApproveBelow - 1, NoValue, NoEmbedding))
    \/ \E w \in Workers, u \in Ukns : Step(ProcessDraw(w, u))
    \/ \E w \in Workers : Step(ProcessVerify(w, TRUE))

NextIssue ==
    \/ \E c \in Cases : Received(MaxRequests + 1, upload_document(c, PassportOk))
    \/ \E w \in Workers, c \in Cases : Received(MaxRequests + 1, ProcessLoad(w, c))
    \/ ServeIssue

SpecIssue == Init /\ [][NextIssue]_vars /\ WF_vars(ServeIssue)

(***************************************************************************)
(* SpecCheck: check_duplicate on its own, over every fingerprint of        *)
(* Vectors and every list of at most MaxCandidates candidates; the i-th    *)
(* candidate's number is i.                                                *)
(***************************************************************************)
CandidateLists == UNION { [1..n -> Vectors] : n \in 0..MaxCandidates }

NumbersOf(existing_embeddings) == [i \in 1..Len(existing_embeddings) |-> i]

InitCheck ==
    /\ Store0
    /\ probe \in [new_embedding : Vectors, existing_embeddings : CandidateLists]
    /\ answer = NoAnswer

CallCheckDuplicate ==
    /\ answer = NoAnswer
    /\ answer' = check_duplicate(probe.new_embedding,
                                 NumbersOf(probe.existing_embeddings),
                                 probe.existing_embeddings)
    /\ UNCHANGED <<apps, documents, verifications, audit_records, chain,
                   embeddings_cache, now, req, reqs, probe, consent_records>>

NextCheck == CallCheckDuplicate

SpecCheck == InitCheck /\ [][NextCheck]_vars

(***************************************************************************)
(* SpecMatch: the duplicate check of process from the verified cases on    *)
(* (kyc.py 501-519), over every fingerprint of Vectors and every list of   *)
(* at most MaxCandidates verified cases, each with a stored fingerprint of *)
(* Vectors or with none; the i-th case's number is i.                      *)
(***************************************************************************)
StoredLists == UNION { [1..n -> Vectors \cup {NoEmbedding}] : n \in 0..MaxCandidates }

InitMatch ==
    /\ Store0
    /\ probe \in [new_embedding : Vectors, stored : StoredLists]
    /\ answer = NoAnswer

CallMatchedUkn ==
    /\ answer = NoAnswer
    /\ answer' = [duplicate_ukn |->
                     MatchedUkn(probe.new_embedding, NumbersOf(probe.stored), probe.stored)]
    /\ UNCHANGED <<apps, documents, verifications, audit_records, chain,
                   embeddings_cache, now, req, reqs, probe, consent_records>>

NextMatch == CallMatchedUkn

SpecMatch == InitMatch /\ [][NextMatch]_vars

(***************************************************************************)
(* SpecLiveness: detect_liveness_from_video on its own, over every video   *)
(* of at most MaxFrames frames. A frame shows open eyes, closed eyes or no *)
(* face that the detector finds; a video may also fail to open. The video   *)
(* is then uploaded as the selfie of a case.                               *)
(***************************************************************************)
EyeStates == {"open", "closed", "no_face"}

Videos == UNION { [1..n -> EyeStates] : n \in 0..MaxFrames }

\* liveness_service.py 40-155, detect_eye_blink on one frame: what the caller reads
detect_eye_blink(frame) ==
    [blink_detected |-> frame = "closed", face_detected |-> frame # "no_face"]

MinOf(a, b) == IF a <= b THEN a ELSE b

\* liveness_service.py 198-201: the loop's variables before the first frame
LoopStart == [blink_count |-> 0, frames_analyzed |-> 0, was_blinking |-> FALSE]

\* One frame that counts every closed frame as a blink
FrameCountedAlways(st, frame) ==
    [blink_count |-> st.blink_count + (IF detect_eye_blink(frame).blink_detected THEN 1 ELSE 0),
     frames_analyzed |-> st.frames_analyzed + 1,
     was_blinking |-> detect_eye_blink(frame).blink_detected]

\* liveness_service.py 209-226: one turn of the loop
Frame(st, frame) ==
    IF detect_eye_blink(frame).blink_detected
    THEN [blink_count |-> IF st.was_blinking THEN st.blink_count ELSE st.blink_count + 1,
          frames_analyzed |-> st.frames_analyzed + 1,
          was_blinking |-> TRUE]
    ELSE [blink_count |-> st.blink_count,
          frames_analyzed |-> st.frames_analyzed + 1,
          was_blinking |-> FALSE]

\* liveness_service.py 204-234: the loop, from frame i on; it ends when the video does
\* or when FrameLimit frames have been analyzed
RECURSIVE Frames(_, _, _)
Frames(video, st, i) ==
    IF i > Len(video) THEN st
    ELSE LET st2 == Frame(st, video[i])
         IN IF st2.frames_analyzed >= FrameLimit THEN st2 ELSE Frames(video, st2, i + 1)

\* liveness_service.py 177-256; confidence in hundredths
detect_liveness_from_video(opened, video) ==
    IF ~opened
    THEN [is_live |-> FALSE, blink_count |-> 0, confidence |-> 0, frames_analyzed |-> 0,
          error |-> TRUE]
    ELSE LET st == Frames(video, LoopStart, 1)
         IN [is_live |-> st.blink_count >= 1,
             blink_count |-> st.blink_count,
             confidence |-> MinOf(100, (st.blink_count * 100) \div 2),
             frames_analyzed |-> st.frames_analyzed,
             error |-> FALSE]

InitLiveness ==
    /\ Store0
    /\ probe \in [opened : BOOLEAN, video : Videos]
    /\ answer = NoAnswer

CallDetectLiveness ==
    /\ answer = NoAnswer
    /\ answer' = detect_liveness_from_video(probe.opened, probe.video)
    /\ UNCHANGED <<apps, documents, verifications, audit_records, chain,
                   embeddings_cache, now, req, reqs, probe, consent_records>>

\* kyc.py 162-185, 296-301: upload_document on a selfie video reads is_live of the result
UploadSelfieVideo ==
    /\ answer # NoAnswer
    /\ \E c \in Cases : upload_document(c, Doc("SELFIE", TRUE, TRUE, answer.is_live, FALSE))
    /\ UNCHANGED <<reqs, probe, answer, consent_records>>

NextLiveness == CallDetectLiveness \/ UploadSelfieVideo

SpecLiveness == InitLiveness /\ [][NextLiveness]_vars

(***************************************************************************)
(* validation_service.py: the checks of validate_user_details on the       *)
(* fields themselves. A name or an address is a text, a gender a sequence  *)
(* of characters, a date a text taken apart (below). A field that the      *)
(* dictionary lacks reads as the empty value, as .get(key, "") does.       *)
(***************************************************************************)
NoText == ""

\* difflib.SequenceMatcher(None, a, b).ratio() in thousandths, for the texts of the
\* function specifications (already upper case, single spaces)
SequenceRatio(a, b) ==
    IF a = b THEN 1000
    ELSE IF {a, b} = {"ASHA RAO", "ASHA RAU"} THEN 875
    ELSE IF {a, b} = {"ASHA RAO", "RAVI K"} THEN 286
    ELSE IF {a, b} = {"ASHA RAU", "RAVI K"} THEN 286
    ELSE IF {a, b} = {"12 MG ROAD PUNE", "12 MG RD PUNE"} THEN 929
    ELSE IF {a, b} = {"12 MG ROAD PUNE", "7 LAKE VIEW"} THEN 231
    ELSE IF {a, b} = {"12 MG RD PUNE", "7 LAKE VIEW"} THEN 250
    ELSE 0

NameSimilarityThreshold == 750
AddressSimilarityThreshold == 600

\* lines 78-93; TRUE when the check passes
_validate_name(user_name, extracted_name) ==
    IF user_name = NoText \/ extracted_name = NoText THEN FALSE
    ELSE SequenceRatio(user_name, extracted_name) >= NameSimilarityThreshold

\* lines 182-198
_validate_address(user_address, extracted_address) ==
    IF user_address = NoText \/ extracted_address = NoText THEN TRUE
    ELSE SequenceRatio(user_address, extracted_address) >= AddressSimilarityThreshold

\* str.upper() and str.strip() on the characters that occur
UpperChar(ch) ==
    CASE ch = "m" -> "M" [] ch = "a" -> "A" [] ch = "l" -> "L" [] ch = "e" -> "E"
      [] ch = "f" -> "F" [] ch = "o" -> "O" [] ch = "t" -> "T" [] ch = "h" -> "H"
      [] ch = "r" -> "R" [] OTHER -> ch

Upper(s) == [i \in 1..Len(s) |-> UpperChar(s[i])]

RECURSIVE Strip(_)
Strip(s) ==
    IF s = <<>> THEN s
    ELSE IF Head(s) = " " THEN Strip(Tail(s))
    ELSE IF s[Len(s)] = " " THEN Strip(SubSeq(s, 1, Len(s) - 1))
    ELSE s

\* Python's `g in s` on strings
Contains(s, g) == \E i \in 0..(Len(s) - Len(g)) : SubSeq(s, i + 1, i + Len(g)) = g

Chars_M == <<"M">>
Chars_MALE == <<"M", "A", "L", "E">>
Chars_F == <<"F">>
Chars_FEMALE == <<"F", "E", "M", "A", "L", "E">>
Chars_O == <<"O">>
Chars_OTHER == <<"O", "T", "H", "E", "R">>

\* lines 169-176: gender_map.get(user_gender_norm, [user_gender_norm])
GenderMapGet(user_gender_norm) ==
    IF user_gender_norm = Chars_MALE THEN {Chars_M, Chars_MALE}
    ELSE IF user_gender_norm = Chars_FEMALE THEN {Chars_F, Chars_FEMALE}
    ELSE IF user_gender_norm = Chars_OTHER THEN {Chars_O, Chars_OTHER}
    ELSE {user_gender_norm}

\* lines 159-180
_validate_gender(user_gender, extracted_gender) ==
    IF user_gender = <<>> \/ extracted_gender = <<>> THEN TRUE
    ELSE LET user_gender_norm == Strip(Upper(user_gender))
             extracted_gender_norm == Strip(Upper(extracted_gender))
             user_genders == GenderMapGet(user_gender_norm)
         IN \/ extracted_gender_norm \in user_genders
            \/ \E g \in user_genders : Contains(extracted_gender_norm, g)

(***************************************************************************)
(* Dates as texts. A numeric text is three numbers n1, n2, n3 with one     *)
(* separator, each number a value v written with w digits ("01" is v 1,    *)
(* w 2), alone or embedded in other words; a textual one is a day, a month *)
(* name (n2.v, full or abbreviated) and a year in one of four layouts.     *)
(***************************************************************************)
Part(v, w) == [v |-> v, w |-> w]

NoPart == Part(0, 0)

DateText(kind, sep, n1, n2, n3, embedded) ==
    [kind |-> kind, sep |-> sep, n1 |-> n1, n2 |-> n2, n3 |-> n3, embedded |-> embedded]

EmptyText == DateText("empty", "", NoPart, NoPart, NoPart, FALSE)
BlankText == DateText("blank", "", NoPart, NoPart, NoPart, FALSE)
JunkText == DateText("junk", "", NoPart, NoPart, NoPart, FALSE)

NoDate == <<0, 0, 0>>

\* datetime.date(y, m, d) exists
IsLeap(y) == y % 4 = 0 /\ (y % 100 # 0 \/ y % 400 = 0)

DaysIn(y, m) ==
    IF m \in {4, 6, 9, 11} THEN 30
    ELSE IF m = 2 THEN (IF IsLeap(y) THEN 29 ELSE 28)
    ELSE 31

DateOrNone(y, m, d) ==
    IF y \in 1..9999 /\ m \in 1..12 /\ d \in 1..DaysIn(y, m) THEN <<y, m, d>> ELSE NoDate

\* lines 123-132
date_formats == <<"%Y-%m-%d", "%d/%m/%Y", "%d-%m-%Y", "%m/%d/%Y",
                  "%d %B %Y", "%d %b %Y", "%B %d, %Y", "%b %d, %Y">>

\* datetime.strptime(text, fmt).date(), NoDate for ValueError: %Y takes four digits,
\* %d and %m one or two, the whole text must be consumed
strptime(text, fmt) ==
    LET short(n) == n.w \in {1, 2}
        year(n) == n.w = 4
        plain == text.kind = "numeric" /\ ~text.embedded
    IN CASE fmt = "%Y-%m-%d" ->
              IF plain /\ text.sep = "-" /\ year(text.n1) /\ short(text.n2) /\ short(text.n3)
              THEN DateOrNone(text.n1.v, text.n2.v, text.n3.v) ELSE NoDate
         [] fmt \in {"%d/%m/%Y", "%d-%m-%Y"} ->
              IF plain /\ text.sep = (IF fmt = "%d/%m/%Y" THEN "/" ELSE "-")
                       /\ short(text.n1) /\ short(text.n2) /\ year(text.n3)
              THEN DateOrNone(text.n3.v, text.n2.v, text.n1.v) ELSE NoDate
         [] fmt = "%m/%d/%Y" ->
              IF plain /\ text.sep = "/" /\ short(text.n1) /\ short(text.n2) /\ year(text.n3)
              THEN DateOrNone(text.n3.v, text.n1.v, text.n2.v) ELSE NoDate
         [] OTHER ->
              IF text.kind = fmt /\ short(text.n1) /\ year(text.n3)
              THEN DateOrNone(text.n3.v, text.n2.v, text.n1.v) ELSE NoDate

\* lines 143-155: re.search of (\d{1,2})[/-](\d{1,2})[/-](\d{2,4}) and the date it gives.
\* The leftmost match takes the last two digits of a four-digit n1 as the day.
RegexDate(text) ==
    IF text.kind = "numeric" /\ text.n1.w >= 1 /\ text.n2.w \in {1, 2} /\ text.n3.w \in 2..4
    THEN LET day == IF text.n1.w > 2 THEN text.n1.v % 100 ELSE text.n1.v
             month == text.n2.v
             y == text.n3.v
             year == IF y < 100 THEN (IF y < 50 THEN y + 2000 ELSE y + 1900) ELSE y
         IN DateOrNone(year, month, day)
    ELSE NoDate

\* lines 137-141: the first format of date_formats, from the i-th on, that parses
RECURSIVE FirstFormat(_, _)
FirstFormat(text, i) ==
    IF i > Len(date_formats) THEN NoDate
    ELSE IF strptime(text, date_formats[i]) # NoDate THEN strptime(text, date_formats[i])
    ELSE FirstFormat(text, i + 1)

\* lines 117-157; strip() leaves nothing of a blank text
_parse_date(date_str) ==
    IF date_str.kind \in {"empty", "blank"} THEN NoDate
    ELSE IF FirstFormat(date_str, 1) # NoDate THEN FirstFormat(date_str, 1)
    ELSE RegexDate(date_str)

\* Variant: dates of the same month and year match
_validate_date_of_birth_in_month(user_dob, extracted_dob) ==
    IF user_dob = EmptyText \/ extracted_dob = EmptyText THEN "dob: not found"
    ELSE IF strptime(user_dob, "%Y-%m-%d") = NoDate THEN "dob: invalid format in user input"
    ELSE IF _parse_date(extracted_dob) = NoDate THEN "dob: could not parse"
    ELSE IF SubSeq(strptime(user_dob, "%Y-%m-%d"), 1, 2) = SubSeq(_parse_date(extracted_dob), 1, 2)
         THEN ""
    ELSE "dob: mismatch"

\* lines 95-115; the reason returned, "" when the check passes
_validate_date_of_birth(user_dob, extracted_dob) ==
    IF user_dob = EmptyText \/ extracted_dob = EmptyText THEN "dob: not found"
    ELSE IF strptime(user_dob, "%Y-%m-%d") = NoDate THEN "dob: invalid format in user input"
    ELSE IF _parse_date(extracted_dob) = NoDate THEN "dob: could not parse"
    ELSE IF strptime(user_dob, "%Y-%m-%d") = _parse_date(extracted_dob) THEN ""
    ELSE "dob: mismatch"

\* lines 15-76 on the fields: the reasons in the order they are appended
ReasonIf(failed, reason) == IF failed THEN <<reason>> ELSE <<>>

rejection_reasons(user_details, extracted_data) ==
    ReasonIf(~_validate_name(user_details.name, extracted_data.name), "name")
    \o ReasonIf(_validate_date_of_birth(user_details.date_of_birth, extracted_data.dob) # "",
                _validate_date_of_birth(user_details.date_of_birth, extracted_data.dob))
    \o ReasonIf(extracted_data.gender # <<>>
                   /\ ~_validate_gender(user_details.gender, extracted_data.gender), "gender")
    \o ReasonIf(user_details.address # NoText /\ extracted_data.address # NoText
                   /\ ~_validate_address(user_details.address, extracted_data.address),
                "address")

\* lines 75-76
ValidationResult(user_details, extracted_data) ==
    [is_valid |-> Len(rejection_reasons(user_details, extracted_data)) = 0,
     reasons |-> rejection_reasons(user_details, extracted_data)]

(***************************************************************************)
(* SpecReconcile: the validator and its callers. An applicant enters the   *)
(* details of ClaimInputs, uploads a passport whose OCR returns the fields *)
(* of EvidenceInputs, and calls process.                                   *)
(***************************************************************************)
Dob_2001_02_01 == DateText("numeric", "-", Part(2001, 4), Part(2, 2), Part(1, 2), FALSE)

ClaimInputs ==
    [name : {"ASHA RAO"}, date_of_birth : {Dob_2001_02_01}, gender : {Chars_MALE},
     address : {NoText, "12 MG ROAD PUNE"}]

EvidenceInputs ==
    [name : {"ASHA RAU", "RAVI K"},
     dob : {DateText("numeric", "/", Part(1, 2), Part(2, 2), Part(2001, 4), FALSE),
            DateText("numeric", "/", Part(2, 2), Part(2, 2), Part(2001, 4), FALSE)},
     gender : {<<>>, Chars_M, Chars_F},
     address : {NoText, "12 MG RD PUNE", "7 LAKE VIEW"}]

InitReconcile ==
    /\ Store0
    /\ probe \in [user_details : ClaimInputs, extracted_data : EvidenceInputs]
    /\ answer = NoAnswer

\* kyc.py 216-220, 389-393: the validator on the details and the fields
CallValidateUserDetails ==
    /\ answer = NoAnswer
    /\ answer' = ValidationResult(probe.user_details, probe.extracted_data)
    /\ UNCHANGED <<apps, documents, verifications, audit_records, chain,
                   embeddings_cache, now, req, reqs, probe, consent_records>>

\* The passport of the function specification, with the validator's verdict on it
ProbedPassport == Doc("PASSPORT", TRUE, answer.is_valid, TRUE, FALSE)

NextReconcile ==
    \/ CallValidateUserDetails
    \/ \E c \in Cases : Alone(MaxRequests, generate_document_requirements(c))
    \/ \E c \in Cases :
          answer # NoAnswer /\ Alone(MaxRequests, upload_document(c, ProbedPassport))
    \/ \E c \in Cases : Alone(MaxRequests, ProcessLoad(1, c))
    \/ Step(ProcessValidate(1, TRUE))

SpecReconcile == InitReconcile /\ [][NextReconcile]_vars

(***************************************************************************)
(* SpecGender: the gender check inside validate_user_details, over every   *)
(* pair of gender texts; the other fields agree.                           *)
(***************************************************************************)
GenderSynonyms == {Chars_M, Chars_MALE, Chars_F, Chars_FEMALE, Chars_O, Chars_OTHER}

GenderTexts == GenderSynonyms \cup {<<>>, <<"m", "a", "l", "e">>, <<" ", "F">>}

InitGender ==
    /\ Store0
    /\ probe \in [user_details : [name : {"ASHA RAO"}, date_of_birth : {Dob_2001_02_01},
                                  gender : GenderTexts, address : {NoText}],
                  extracted_data : [name : {"ASHA RAO"}, dob : {Dob_2001_02_01},
                                    gender : GenderTexts, address : {NoText}]]
    /\ answer = NoAnswer

NextGender == CallValidateUserDetails

SpecGender == InitGender /\ [][NextGender]_vars

(***************************************************************************)
(* SpecDob: the date-of-birth check inside validate_user_details, over the *)
(* date texts below; the other fields agree.                               *)
(***************************************************************************)
DateParts ==
    {Part(1, 1), Part(1, 2), Part(2, 2), Part(12, 2), Part(13, 2), Part(30, 2),
     Part(49, 2), Part(50, 2), Part(1999, 4), Part(2001, 4)}

ShortParts == { n \in DateParts : n.w <= 2 }

NumericTexts ==
    { DateText("numeric", sep, n1, n2, n3, embedded) :
        sep \in {"-", "/"}, n1 \in DateParts, n2 \in ShortParts, n3 \in DateParts,
        embedded \in BOOLEAN }

MonthTexts ==
    { DateText(kind, "", n1, Part(m, 0), n3, FALSE) :
        kind \in {"%d %B %Y", "%d %b %Y", "%B %d, %Y", "%b %d, %Y"},
        n1 \in {Part(1, 2), Part(30, 2)}, m \in {2, 12}, n3 \in {Part(2001, 4), Part(49, 2)} }

ExtractedDobs == NumericTexts \cup MonthTexts \cup {EmptyText, BlankText, JunkText}

UserDobs ==
    { EmptyText, BlankText, Dob_2001_02_01,
      DateText("numeric", "-", Part(2001, 4), Part(2, 2), Part(1, 1), FALSE),
      DateText("numeric", "-", Part(2001, 4), Part(2, 2), Part(30, 2), FALSE),
      DateText("numeric", "-", Part(1999, 4), Part(12, 2), Part(30, 2), FALSE),
      DateText("numeric", "-", Part(2001, 4), Part(2, 2), Part(1, 2), TRUE),
      DateText("numeric", "/", Part(1, 2), Part(2, 2), Part(2001, 4), FALSE),
      DateText("numeric", "-", Part(50, 2), Part(2, 2), Part(1, 2), FALSE) }

InitDob ==
    /\ Store0
    /\ probe \in [user_details : [name : {"ASHA RAO"}, date_of_birth : UserDobs,
                                  gender : {<<>>}, address : {NoText}],
                  extracted_data : [name : {"ASHA RAO"}, dob : ExtractedDobs,
                                    gender : {<<>>}, address : {NoText}]]
    /\ answer = NoAnswer

NextDob == CallValidateUserDetails

SpecDob == InitDob /\ [][NextDob]_vars

(***************************************************************************)
(* transaction_analysis_service.py: analyze_transaction_document on what   *)
(* its extraction and its six checks return for a document.                *)
(***************************************************************************)
RapidThreshold == 10
CashThreshold == 5
RapidRisk == 30
LargeRisk == 25
RoundRisk == 15
CashRisk == 20
NegativeBalanceRisk == 40
DuplicateRisk == 35
NoTransactionsRisk == 50
SuspiciousFrom == 40
RiskCap == 100

RECURSIVE SumOf(_)
SumOf(risks) == IF risks = <<>> THEN 0 ELSE Head(risks) + SumOf(Tail(risks))

\* Variant: a check that fires at its threshold
RapidTriggeredAtThreshold(rapid_count) == rapid_count >= RapidThreshold

\* line 89
RapidTriggered(rapid_count) == rapid_count > RapidThreshold

\* lines 85-154: the risks of the factors in the order they are appended
risk_factors(checks) ==
    (IF RapidTriggered(checks.rapid_count) THEN <<RapidRisk>> ELSE <<>>)
    \o (IF checks.large_amounts > 0 THEN <<LargeRisk>> ELSE <<>>)
    \o (IF checks.round_numbers > 0 THEN <<RoundRisk>> ELSE <<>>)
    \o (IF checks.cash_withdrawals > CashThreshold THEN <<CashRisk>> ELSE <<>>)
    \o (IF checks.negative_balance THEN <<NegativeBalanceRisk>> ELSE <<>>)
    \o (IF checks.duplicates > 0 THEN <<DuplicateRisk>> ELSE <<>>)

\* lines 64-174
analyze_transaction_document(checks) ==
    IF checks.transactions = 0
    THEN [is_suspicious |-> TRUE, risk_score |-> NoTransactionsRisk,
          transaction_count |-> 0, factors |-> 0]
    ELSE LET total_risk == SumOf(risk_factors(checks))
             risk_score == MinOf(RiskCap, total_risk)
         IN [is_suspicious |-> risk_score >= SuspiciousFrom, risk_score |-> risk_score,
             transaction_count |-> checks.transactions,
             factors |-> Len(risk_factors(checks))]

(***************************************************************************)
(* SpecTransactions: analyze_transaction_document on its own. The counts   *)
(* are those a document of that many transactions can give: at most one    *)
(* transaction a day when there is one transaction, none when none parsed. *)
(***************************************************************************)
ManyTransactions == 12

CheckResults ==
    { ck \in [transactions : {0, 1, ManyTransactions},
              rapid_count : {0, RapidThreshold, RapidThreshold + 1},
              large_amounts : {0, 1},
              round_numbers : {0, 2},
              cash_withdrawals : {0, CashThreshold, CashThreshold + 1},
              negative_balance : BOOLEAN,
              duplicates : {0, 1}] :
        /\ ck.rapid_count <= ck.transactions
        /\ ck.transactions < 2 => ck.rapid_count = 0
        /\ ck.large_amounts <= ck.transactions
        /\ ck.cash_withdrawals <= ck.transactions
        /\ ck.duplicates < ck.transactions \/ ck.duplicates = 0 }

InitTransactions ==
    /\ Store0
    /\ probe \in CheckResults
    /\ answer = NoAnswer

CallAnalyzeTransactionDocument ==
    /\ answer = NoAnswer
    /\ answer' = analyze_transaction_document(probe)
    /\ UNCHANGED <<apps, documents, verifications, audit_records, chain,
                   embeddings_cache, now, req, reqs, probe, consent_records>>

NextTransactions == CallAnalyzeTransactionDocument

SpecTransactions == InitTransactions /\ [][NextTransactions]_vars

(***************************************************************************)
(* ml_service.py: the attribution list of calculate_risk_score, on the     *)
(* SHAP values the explainer returns for the eight features.               *)
(***************************************************************************)
\* lines 19-28
feature_names ==
    <<"face_match_confidence", "document_age_years", "address_verification_score",
      "transaction_history_risk", "id_quality_score", "document_type_risk",
      "extraction_confidence", "name_match_score">>

AbsOf(x) == IF x < 0 THEN 0 - x ELSE x

\* Variant: an item goes before the items of equal key
InsertBeforeEqual(sorted, item) ==
    LET before == SelectSeq(sorted, LAMBDA s : AbsOf(s.shap_value) > AbsOf(item.shap_value))
        after == SelectSeq(sorted, LAMBDA s : AbsOf(s.shap_value) <= AbsOf(item.shap_value))
    IN before \o <<item>> \o after

\* list.sort(key=abs(shap_value), reverse=True) is stable: an item goes behind the items
\* of greater or equal key that precede it in the list
InsertStable(sorted, item) ==
    LET before == SelectSeq(sorted, LAMBDA s : AbsOf(s.shap_value) >= AbsOf(item.shap_value))
        after == SelectSeq(sorted, LAMBDA s : AbsOf(s.shap_value) < AbsOf(item.shap_value))
    IN before \o <<item>> \o after

\* line 154, on the first n items of the list
RECURSIVE SortedByImpact(_, _)
SortedByImpact(items, n) ==
    IF n = 0 THEN <<>> ELSE InsertStable(SortedByImpact(items, n - 1), items[n])

\* lines 143-156: the list built in declaration order, then sorted
shap_features(shap_values) ==
    SortedByImpact([i \in 1..Len(feature_names) |->
                       [feature |-> feature_names[i], shap_value |-> shap_values[i]]],
                   Len(feature_names))

(***************************************************************************)
(* SpecAttribution: the attribution list on its own, over every vector of  *)
(* SHAP values drawn from ShapValues.                                      *)
(***************************************************************************)
ShapValues == {0 - 2, 0 - 1, 0, 1}

InitAttribution ==
    /\ Store0
    /\ probe \in [1..Len(feature_names) -> ShapValues]
    /\ answer = NoAnswer

CallShapFeatures ==
    /\ answer = NoAnswer
    /\ answer' = shap_features(probe)
    /\ UNCHANGED <<apps, documents, verifications, audit_records, chain,
                   embeddings_cache, now, req, reqs, probe, consent_records>>

NextAttribution == CallShapFeatures

SpecAttribution == InitAttribution /\ [][NextAttribution]_vars

(***************************************************************************)
(* ml_service.py: the risk probability. predict_proba of the random forest *)
(* is the mean over its trees of the fraction of high-risk samples in the  *)
(* leaf the features fall into; probabilities are in hundredths.           *)
(***************************************************************************)
Leaves == { l \in [low : 0..MaxLeaf, high : 0..MaxLeaf] : l.low + l.high > 0 }

Forests == UNION { [1..n -> Leaves] : n \in 1..MaxTrees }

TreeProba(leaf) == (100 * leaf.high) \div (leaf.low + leaf.high)

\* Variant: the trees' fractions added up, not averaged
predict_proba_summed(forest) == SumOf([t \in 1..Len(forest) |-> TreeProba(forest[t])])

\* line 138: self.model.predict_proba(features_scaled)[0][1]
predict_proba(forest) ==
    SumOf([t \in 1..Len(forest) |-> TreeProba(forest[t])]) \div Len(forest)

(***************************************************************************)
(* SpecScorer: the Risk Scorer answers for the leaves of probe; a passport *)
(* is uploaded for case 1 and processed with that answer, or with a scorer *)
(* that raises.                                                            *)
(***************************************************************************)
InitScorer ==
    /\ Store0
    /\ probe \in Forests
    /\ answer = NoAnswer

CallCalculateRiskScore ==
    /\ answer = NoAnswer
    /\ answer' = [risk_score |-> predict_proba(probe)]
    /\ UNCHANGED <<apps, documents, verifications, audit_records, chain,
                   embeddings_cache, now, req, reqs, probe, consent_records>>

\* kyc.py 590-609: what the scorer returns inside process, NoValue when it raises
ScorerOutcomes == IF answer = NoAnswer THEN {NoValue} ELSE {answer.risk_score, NoValue}

NextScorer ==
    \/ CallCalculateRiskScore
    \/ Alone(MaxRequests, upload_document(1, PassportOk))
    \/ answer # NoAnswer /\ Alone(MaxRequests, ProcessLoad(1, 1))
    \/ Step(ProcessValidate(1, TRUE))
    \/ \E risk \in ScorerOutcomes : Step(ProcessSignals(1, risk, NoValue, NoEmbedding))
    \/ Step(ProcessDecide(1))
    \/ Step(ProcessVerify(1, TRUE))

SpecScorer == InitScorer /\ [][NextScorer]_vars

(***************************************************************************)
(* institution.py, ukn_service.py: resolve_kyc. A number in a request is a *)
(* text; the text generate_ukn gives for the number u is the canonical one *)
(* ("KYC-" and three blocks of four upper-case hexadecimal digits), and    *)
(* the other forms are the same digits written otherwise.                  *)
(***************************************************************************)
UknForms ==
    {"canonical",      \* KYC-1A2B-3C4D-5E6F
     "lowercase",      \* KYC-1a2b-3c4d-5e6f
     "prefixed",       \* KYC-0x1A-3C4D-5E6F, KYC-+1AB-3C4D-5E6F: int(s, 16) reads a prefix or sign
     "short_block",    \* KYC-1A2-3C4D-5E6F
     "other_prefix",   \* kyc-1A2B-3C4D-5E6F
     "not_hex",        \* KYC-1A2G-3C4D-5E6F
     "three_parts"}    \* KYC-1A2B-3C4D

UknText(form, u) == [form |-> form, number |-> u]

UknTexts == { UknText(form, u) : form \in UknForms, u \in Ukns }

\* ukn_service.py 7-18: the text generate_ukn gives
FormatUkn(u) == UknText("canonical", u)

\* ukn_service.py 21-35
validate_ukn_format(text) ==
    IF text.form = "three_parts" THEN FALSE            \* len(parts) != 4
    ELSE IF text.form = "other_prefix" THEN FALSE      \* parts[0] != 'KYC'
    ELSE IF text.form = "short_block" THEN FALSE       \* len(parts[i]) != 4
    ELSE IF text.form = "not_hex" THEN FALSE           \* int(hex_str, 16) raises ValueError
    ELSE TRUE

\* Variant: a store whose text comparison ignores case
SameTextIgnoringCase(a, b) ==
    a.number = b.number /\ {a.form, b.form} \subseteq {"canonical", "lowercase"}

\* institution.py 55-57: KYCApplication.ukn == ukn in the store (SQLite, binary collation)
SameText(a, b) == a = b

Institutions == {"bank"}
Purposes == {"account_opening", "loan_application"}

ConsentDays == 30              \* timedelta(days=30)
ConsentPeriod == ConsentDays * TicksPerDay

\* A ConsentRecord row (models.py 80-95)
ConsentRecord(kyc_id, institution_id, purpose, consent_given, accessed_at, expires_at) ==
    [kyc_id |-> kyc_id, institution_id |-> institution_id, purpose |-> purpose,
     consent_given |-> consent_given, accessed_at |-> accessed_at, expires_at |-> expires_at]

\* filter(kyc_id == ..., institution_id == ..., purpose == ...): the ids of the rows
ConsentsOf(c, institution, purpose) ==
    { k \in 1..Len(consent_records) :
         /\ consent_records[k].kyc_id = c
         /\ consent_records[k].institution_id = institution
         /\ consent_records[k].purpose = purpose }

\* filter(KYCApplication.ukn == ukn): the cases holding the number the text writes
HoldersOf(text) ==
    { c \in Cases : apps[c].ukn # NoUkn /\ SameText(FormatUkn(apps[c].ukn), text) }

\* Variant: a case never expires for an institution
IsExpiredNever(expires_at, utcnow) == FALSE

\* institution.py 67: kyc_app.expires_at and kyc_app.expires_at < datetime.utcnow()
IsExpired(expires_at, utcnow) == expires_at # NoValue /\ expires_at < utcnow

\* institution.py 35-125
resolve_kyc(w, institution, text, purpose) ==
    LET found == { c \in HoldersOf(text) : apps[c].status = "VERIFIED" }
    IN /\ req[w].pc = "idle"
       /\ IF ~validate_ukn_format(text)
          THEN /\ req' = [req EXCEPT ![w] = Done("resolve: invalid format", 0)]
               /\ UNCHANGED consent_records
          ELSE IF found = {}
          THEN /\ req' = [req EXCEPT ![w] = Done("resolve: not found", 0)]
               /\ UNCHANGED consent_records
          ELSE LET c == CHOOSE c2 \in found : TRUE
               IN IF IsExpired(apps[c].expires_at, now)
                  THEN /\ req' = [req EXCEPT ![w] = Done("resolve: expired", c)]
                       /\ UNCHANGED consent_records
                  ELSE /\ req' = [req EXCEPT ![w] = Done("resolve: ok", c)]
                       /\ consent_records' =
                             IF ConsentsOf(c, institution, purpose) # {}
                             THEN consent_records
                             ELSE Append(consent_records,
                                         ConsentRecord(c, institution, purpose, TRUE, now,
                                                       now + ConsentPeriod))
       /\ UNCHANGED <<apps, documents, verifications, audit_records, chain,
                      embeddings_cache, now>>

\* institution.py 146-155: a row of the institution for the purpose with consent given
\* and not expired
has_consent(c, institution, purpose) ==
    \E k \in ConsentsOf(c, institution, purpose) :
        consent_records[k].consent_given /\ consent_records[k].expires_at > now

\* institution.py 128-158
validate_consent(w, institution, text, purpose) ==
    /\ req[w].pc = "idle"
    /\ req' = [req EXCEPT ![w] =
                 IF HoldersOf(text) = {} THEN Done("validate: not found", 0)
                 ELSE LET c == CHOOSE c2 \in HoldersOf(text) : TRUE
                      IN IF has_consent(c, institution, purpose)
                         THEN Done("validate: has consent", c)
                         ELSE Done("validate: no consent", c)]
    /\ UNCHANGED <<apps, documents, verifications, audit_records, chain,
                   embeddings_cache, now, consent_records>>

\* institution.py 171-226
request_consent(w, institution, text, purpose) ==
    LET found == { c \in HoldersOf(text) : apps[c].status = "VERIFIED" }
    IN /\ req[w].pc = "idle"
       /\ IF found = {}
          THEN /\ req' = [req EXCEPT ![w] = Done("request: not found", 0)]
               /\ UNCHANGED consent_records
          ELSE LET c == CHOOSE c2 \in found : TRUE
               IN IF has_consent(c, institution, purpose)
                  THEN /\ req' = [req EXCEPT ![w] = Done("request: already granted", c)]
                       /\ UNCHANGED consent_records
                  ELSE /\ req' = [req EXCEPT ![w] = Done("request: created", c)]
                       /\ consent_records' =
                             Append(consent_records,
                                    ConsentRecord(c, institution, purpose, FALSE, NoValue,
                                                  now + ConsentPeriod))
       /\ UNCHANGED <<apps, documents, verifications, audit_records, chain,
                      embeddings_cache, now>>

\* kyc.py 820-839 and 857-876: the applicant's case, and the row of that case with the id
ConsentRefusal(c, consent_id) ==
    IF apps[c].status = "ABSENT" THEN "no application"
    ELSE IF consent_id \notin 1..Len(consent_records) THEN "consent not found"
    ELSE IF consent_records[consent_id].kyc_id # c THEN "consent not found"
    ELSE ""

\* kyc.py 811-845
grant_consent(w, c, consent_id) ==
    /\ req[w].pc = "idle"
    /\ IF ConsentRefusal(c, consent_id) # ""
       THEN /\ req' = [req EXCEPT ![w] = Done("grant: " \o ConsentRefusal(c, consent_id), c)]
            /\ UNCHANGED consent_records
       ELSE /\ consent_records' = [consent_records EXCEPT
                                      ![consent_id].consent_given = TRUE,
                                      ![consent_id].accessed_at = now]
            /\ req' = [req EXCEPT ![w] = [Done("grant: ok", c) EXCEPT !.consent = consent_id]]
    /\ UNCHANGED <<apps, documents, verifications, audit_records, chain,
                   embeddings_cache, now>>

\* kyc.py 848-882
revoke_consent(w, c, consent_id) ==
    /\ req[w].pc = "idle"
    /\ IF ConsentRefusal(c, consent_id) # ""
       THEN /\ req' = [req EXCEPT ![w] = Done("revoke: " \o ConsentRefusal(c, consent_id), c)]
            /\ UNCHANGED consent_records
       ELSE /\ consent_records' = [consent_records EXCEPT
                                      ![consent_id].consent_given = FALSE,
                                      ![consent_id].expires_at = now]
            /\ req' = [req EXCEPT ![w] = [Done("revoke: ok", c) EXCEPT !.consent = consent_id]]
    /\ UNCHANGED <<apps, documents, verifications, audit_records, chain,
                   embeddings_cache, now>>

(***************************************************************************)
(* kyc.py: upload_document from the request on: the checks of the file     *)
(* type and of the document type (lines 93-134), then the upload.          *)
(***************************************************************************)
ContentTypes == {"image/jpeg", "video/mp4", "application/pdf"}

\* lines 111-128
valid_types ==
    {"PASSPORT", "DRIVERS_LICENSE", "DRIVING_LICENSE", "NATIONAL_ID", "AADHAAR", "AADHAR",
     "PAN_CARD", "UTILITY_BILL", "BANK_STATEMENT", "MARRIAGE_CERTIFICATE", "INCOME_PROOF",
     "EDUCATION_PROOF", "MEDICAL_CERTIFICATE", "ADDRESS_PROOF", "IDENTITY_DOC", "SELFIE"}

\* lines 93-134: the reason the request is refused for, "" when it is not
UploadRefusal(content_type, doc_type) ==
    IF content_type \notin {"image/jpeg", "video/mp4"} THEN "upload: unsupported file type"
    ELSE IF doc_type = "SELFIE" /\ content_type # "video/mp4"
         THEN "upload: selfie must be a video"
    ELSE IF doc_type \notin valid_types THEN "upload: invalid document type"
    ELSE ""

UploadRequest(w, c, content_type, d) ==
    /\ req[w].pc = "idle"
    /\ IF UploadRefusal(content_type, d.doc_type) # ""
       THEN /\ req' = [req EXCEPT ![w] = Done(UploadRefusal(content_type, d.doc_type), c)]
            /\ UNCHANGED <<apps, documents, verifications, audit_records, chain,
                           embeddings_cache, now>>
       ELSE upload_document(c, d)

(***************************************************************************)
(* SpecInput: requests with well-formed and malformed input: uploads of    *)
(* every content type, of supported and unsupported kinds; process at low  *)
(* risk; resolve on every text of UknTexts.                                *)
(***************************************************************************)
\* A request that may write consent records is received and served alone
AloneWithConsent(n, A) ==
    AllIdle /\ reqs < n /\ reqs' = reqs + 1 /\ A /\ UNCHANGED <<probe, answer>>

UploadInputs == {PassportOk, SelfieLive, Doc("LIBRARY_CARD", TRUE, TRUE, TRUE, FALSE)}

NextInput ==
    \/ \E c \in Cases, ct \in ContentTypes, d \in UploadInputs :
          Alone(MaxRequests, UploadRequest(1, c, ct, d))
    \/ \E c \in Cases : Alone(MaxRequests, ProcessLoad(1, c))
    \/ Step(ProcessValidate(1, TRUE))
    \/ Step(ProcessSignals(1, AutoApproveBelow - 1, NoValue, NoEmbedding))
    \/ Step(ProcessDecide(1))
    \/ Step(ProcessVerify(1, TRUE))
    \/ \E i \in Institutions, text \in UknTexts, p \in Purposes :
          AloneWithConsent(MaxRequests, resolve_kyc(1, i, text, p))

SpecInput == Init /\ [][NextInput]_vars

(***************************************************************************)
(* SpecInstitution: verified cases and the institutions. Passports are     *)
(* uploaded and processed at low risk, a selfie that is not live is        *)
(* uploaded (the case is FLAGGED and keeps its number); the institution    *)
(* resolves a number; and time passes, once: a consent period, or the      *)
(* validity of a case from the instant, or a tick more.                    *)
(* SpecConsent: passports are uploaded and processed at low risk; the      *)
(* institution resolves a number, asks for consent and checks it; the      *)
(* applicant grants and revokes; a consent period may pass, once.          *)
(***************************************************************************)
SelfieNotLive == Doc("SELFIE", TRUE, TRUE, FALSE, FALSE)

InstitutionTexts == { UknText(form, u) : form \in {"canonical", "short_block"}, u \in Ukns }

\* The ids a consent request may name: those of the rows, and one that no row has
ConsentIds == 1..(Len(consent_records) + 1)

Elapsed == {ConsentPeriod, Validity, Validity + 1}

\* Time passes between two requests
Elapse(t) ==
    /\ AllIdle
    /\ now <= MaxClock
    /\ now' = now + t
    /\ UNCHANGED <<apps, documents, verifications, audit_records, chain, embeddings_cache,
                   req, reqs, probe, answer, consent_records>>

NextInstitution ==
    \/ \E c \in Cases, d \in {PassportOk, SelfieNotLive} :
          Alone(MaxRequests, upload_document(c, d))
    \/ \E c \in Cases : Alone(MaxRequests, ProcessLoad(1, c))
    \/ Step(ProcessValidate(1, TRUE))
    \/ Step(ProcessSignals(1, AutoApproveBelow - 1, NoValue, NoEmbedding))
    \/ Step(ProcessDecide(1))
    \/ Step(ProcessVerify(1, TRUE))
    \/ \E i \in Institutions, text \in InstitutionTexts, p \in Purposes :
          AloneWithConsent(MaxRequests, resolve_kyc(1, i, text, p))
    \/ \E t \in Elapsed : Elapse(t)

SpecInstitution == Init /\ [][NextInstitution]_vars

\* The numbers the institution asks about, as generate_ukn writes them
IssuedTexts == { FormatUkn(u) : u \in Ukns }

\* validate_consent writes nothing: the check may be made at any time between two requests
NextConsent ==
    \/ \E c \in Cases : Alone(MaxRequests + 1, upload_document(c, PassportOk))
    \/ \E c \in Cases : Alone(MaxRequests + 1, ProcessLoad(1, c))
    \/ Step(ProcessValidate(1, TRUE))
    \/ Step(ProcessSignals(1, AutoApproveBelow - 1, NoValue, NoEmbedding))
    \/ Step(ProcessDecide(1))
    \/ Step(ProcessVerify(1, TRUE))
    \/ \E i \in Institutions, text \in IssuedTexts, p \in Purposes :
          AloneWithConsent(MaxRequests + 1, resolve_kyc(1, i, text, p))
    \/ \E i \in Institutions, text \in IssuedTexts, p \in Purposes :
          AloneWithConsent(MaxRequests + 1, request_consent(1, i, text, p))
    \/ \E i \in Institutions, text \in IssuedTexts, p \in Purposes :
          Step(validate_consent(1, i, text, p))
    \/ \E c \in Cases, k \in ConsentIds :
          AloneWithConsent(MaxRequests + 1, grant_consent(1, c, k))
    \/ \E c \in Cases, k \in ConsentIds :
          AloneWithConsent(MaxRequests + 1, revoke_consent(1, c, k))
    \/ Elapse(ConsentPeriod)

SpecConsent == Init /\ [][NextConsent]_vars

(***************************************************************************)
(* kyc.py 578-587: the features process hands to the Risk Scorer, in       *)
(* hundredths. face_match_score is None (NoValue) when no biometric match  *)
(* was computed. SpecFeatures: the preparation on its own, over the scores *)
(* of FaceScores, the kinds of FeatureDocTypes, with and without extracted *)
(* fields.                                                                 *)
(***************************************************************************)
DefaultFaceMatchConfidence == 85    \* 0.85
DefaultDocTypeRisk == 30            \* .get(doc.doc_type, 0.3)

\* face_match_score if face_match_score else 0.85: None and 0.0 are both false
face_match_conf(face_match_score) ==
    IF face_match_score # NoValue /\ face_match_score # 0 THEN face_match_score
    ELSE DefaultFaceMatchConfidence

\* {"PASSPORT": 0.1, "DRIVERS_LICENSE": 0.3, "NATIONAL_ID": 0.5}.get(doc.doc_type, 0.3)
doc_type_risk(doc_type) ==
    IF doc_type = "PASSPORT" THEN 10
    ELSE IF doc_type = "DRIVERS_LICENSE" THEN 30
    ELSE IF doc_type = "NATIONAL_ID" THEN 50
    ELSE DefaultDocTypeRisk

\* 0.9 if doc.extracted_data else 0.7
extraction_confidence(extracted) == IF extracted THEN 90 ELSE 70

\* The keyword arguments of ml_service.calculate_risk_score that depend on the case
Features(face_match_score, doc_type, extracted) ==
    [face_match_confidence |-> face_match_conf(face_match_score),
     document_type_risk |-> doc_type_risk(doc_type),
     extraction_confidence |-> extraction_confidence(extracted)]

FaceScores == {0, 1, 30, 50, 70, 85, 90, 100}
FeatureDocTypes == {"PASSPORT", "DRIVERS_LICENSE", "NATIONAL_ID", "AADHAAR"}

InitFeatures ==
    /\ Store0
    /\ probe \in [face_match_score : FaceScores \cup {NoValue},
                   doc_type : FeatureDocTypes, extracted : BOOLEAN]
    /\ answer = NoAnswer

CallFeatures ==
    /\ answer = NoAnswer
    /\ answer' = Features(probe.face_match_score, probe.doc_type, probe.extracted)
    /\ UNCHANGED <<apps, documents, verifications, audit_records, chain,
                   embeddings_cache, now, req, reqs, probe, consent_records>>

NextFeatures == CallFeatures

SpecFeatures == InitFeatures /\ [][NextFeatures]_vars

(***************************************************************************)
(* admin.py: get_review_queue. SpecQueue: the reviewer reads the queue     *)
(* between the requests of the applicants: document-list generation,       *)
(* uploads of passports that match and that do not, process.               *)
(***************************************************************************)
QueueRiskFrom == 30            \* KYCApplication.risk_score >= 0.3, in hundredths

\* admin.py 66
QueueStatuses == {"IN_REVIEW", "PROCESSING", "REQUEST_INFO", "UPLOADED", "REGISTERED", "DRAFT"}

\* admin.py 65-75: the cases the query returns
get_review_queue ==
    { c \in Cases : /\ apps[c].rows > 0
                    /\ apps[c].status \in QueueStatuses
                    /\ (apps[c].risk_score = NoValue \/ apps[c].risk_score >= QueueRiskFrom) }

CallGetReviewQueue ==
    /\ AllIdle
    /\ answer' = [applications |-> get_review_queue]
    /\ UNCHANGED <<apps, documents, verifications, audit_records, chain,
                   embeddings_cache, now, req, reqs, probe, consent_records>>

PassportMismatch == Doc("PASSPORT", TRUE, FALSE, TRUE, FALSE)

NextQueue ==
    \/ \E c \in Cases : Alone(MaxRequests, generate_document_requirements(c))
    \/ \E c \in Cases, d \in {PassportOk, PassportMismatch} :
          Alone(MaxRequests, upload_document(c, d))
    \/ \E c \in Cases : Alone(MaxRequests, ProcessLoad(1, c))
    \/ \E ocr \in OcrOutcomes : Step(ProcessValidate(1, ocr))
    \/ \E risk \in Signals : Step(ProcessSignals(1, risk, NoValue, NoEmbedding))
    \/ Step(ProcessDecide(1))
    \/ Step(ProcessVerify(1, TRUE))
    \/ CallGetReviewQueue

SpecQueue == Init /\ [][NextQueue]_vars

(***************************************************************************)
(* blockchain_service.py: get_ukn_record. SpecLedger: document-list        *)
(* generation, uploads of passports that match and that do not, process at *)
(* low risk, approve, one request at a time.                               *)
(***************************************************************************)
NoBlock == [tx_hash |-> <<>>]

\* blockchain_service.py 79-84: the first block of the chain with the number
get_ukn_record(ukn) ==
    LET blocks == { i \in 1..Len(chain) : chain[i].data.ukn = ukn }
    IN IF blocks = {} THEN NoBlock ELSE chain[Min(blocks)]

NextLedger ==
    \/ \E c \in Cases : Alone(MaxRequests + 1, generate_document_requirements(c))
    \/ \E c \in Cases, d \in {PassportOk, PassportMismatch} :
          Alone(MaxRequests + 1, upload_document(c, d))
    \/ \E c \in Cases : Alone(MaxRequests + 1, ProcessLoad(1, c))
    \/ \E ocr \in OcrOutcomes : Step(ProcessValidate(1, ocr))
    \/ Step(ProcessSignals(1, AutoApproveBelow - 1, NoValue, NoEmbedding))
    \/ Step(ProcessDecide(1))
    \/ Step(ProcessVerify(1, TRUE))
    \/ \E c \in Cases, rv \in Reviewers, cm \in ApproveComments :
          Alone(MaxRequests + 1, ApproveLoad(1, c, rv, cm))
    \/ Step(ApproveCommit(1, TRUE))

SpecLedger == Init /\ [][NextLedger]_vars

(***************************************************************************)
(* kyc.py, document_generator.py: the creation of a case, commit by        *)
(* commit. create_kyc_application looks for an active case and inserts a   *)
(* row; upload_document and generate_document_requirements look for a case *)
(* of the applicant, insert a row when they find none and commit it        *)
(* (kyc.py 141-145, document_generator.py 243-250), then go on.            *)
(***************************************************************************)
\* kyc.py 41: the statuses create_kyc_application takes for an active case
ActiveStatuses == {"DRAFT", "UPLOADED", "PROCESSING", "IN_REVIEW"}

\* Variant: a store without the unique index on user_id
UserIdViolationNever(c) == FALSE

\* The store's unique index on kyc_applications.user_id (models.py 31: unique=True):
\* inserting a row for applicant c is refused when a row holds that user_id.
UserIdViolation(c) == apps[c].rows > 0

\* kyc.py 39-48
CreateFind(w, c) ==
    /\ req[w].pc = "idle"
    /\ req' = [req EXCEPT ![w] =
                 IF apps[c].rows > 0 /\ apps[c].status \in ActiveStatuses
                 THEN Done("create: already active", c)
                 ELSE [Idle EXCEPT !.pc = "c_insert", !.kyc = c]]
    /\ UNCHANGED <<apps, documents, verifications, audit_records, chain,
                   embeddings_cache, now>>

\* The uploads of applicant c that are in flight
Uploading(c) == { w \in Workers : req[w].kyc = c /\ req[w].pc \in {"u_insert", "u_rest"} }

\* kyc.py 137-141
UploadFind(w, c) ==
    /\ req[w].pc = "idle"
    /\ Len(documents[c]) + Cardinality(Uploading(c)) < MaxDocs
    /\ req' = [req EXCEPT ![w] =
                 [Idle EXCEPT !.pc = IF apps[c].rows = 0 THEN "u_insert" ELSE "u_rest",
                              !.kyc = c]]
    /\ UNCHANGED <<apps, documents, verifications, audit_records, chain,
                   embeddings_cache, now>>

\* document_generator.py 239-243
GenerateFind(w, c) ==
    /\ req[w].pc = "idle"
    /\ req' = [req EXCEPT ![w] =
                 [Idle EXCEPT !.pc = IF apps[c].rows = 0 THEN "g_insert" ELSE "g_rest",
                              !.kyc = c]]
    /\ UNCHANGED <<apps, documents, verifications, audit_records, chain,
                   embeddings_cache, now>>

\* kyc.py 51-58 and 142-145, document_generator.py 244-250: db.add(KYCApplication(
\* user_id, status="REGISTERED")) and its commit
InsertCase(w) ==
    LET r == req[w]
        c == r.kyc
    IN /\ r.pc \in {"c_insert", "u_insert", "g_insert"}
       /\ IF UserIdViolation(c)
          THEN /\ req' = [req EXCEPT ![w] =
                            IF r.pc = "c_insert" THEN Done("create: integrity error", c)
                            ELSE IF r.pc = "u_insert" THEN Done("upload: integrity error", c)
                            ELSE Done("generate: integrity error", c)]
               /\ UNCHANGED apps
          ELSE /\ apps' = [apps EXCEPT ![c] = IF @.rows = 0 THEN NewApp
                                              ELSE [@ EXCEPT !.rows = @ + 1]]
               /\ req' = [req EXCEPT ![w] =
                            IF r.pc = "c_insert" THEN Done("create: ok", c)
                            ELSE IF r.pc = "u_insert" THEN [r EXCEPT !.pc = "u_rest"]
                            ELSE [r EXCEPT !.pc = "g_rest"]]
       /\ UNCHANGED <<documents, verifications, audit_records, chain, embeddings_cache, now>>

\* kyc.py 147-332: the upload, on the case found or inserted
UploadRest(w, d) ==
    /\ req[w].pc = "u_rest"
    /\ UploadWrites(req[w].kyc, d)
    /\ req' = [req EXCEPT ![w] = Done("upload: ok", req[w].kyc)]

\* document_generator.py 252-265
GenerateRest(w) ==
    /\ req[w].pc = "g_rest"
    /\ apps' = [apps EXCEPT ![req[w].kyc].user_details = TRUE]
    /\ req' = [req EXCEPT ![w] = Done("generate: ok", req[w].kyc)]
    /\ UNCHANGED <<documents, verifications, audit_records, chain, embeddings_cache, now>>

(***************************************************************************)
(* SpecRegister: two requests of create, upload of a passport and          *)
(* document-list generation are served together and interleave at their    *)
(* commits.                                                                *)
(***************************************************************************)
NextRegister ==
    \/ \E w \in Workers, c \in Cases : Received(MaxRequests, CreateFind(w, c))
    \/ \E w \in Workers, c \in Cases : Received(MaxRequests, UploadFind(w, c))
    \/ \E w \in Workers, c \in Cases : Received(MaxRequests, GenerateFind(w, c))
    \/ \E w \in Workers : Step(InsertCase(w))
    \/ \E w \in Workers : Step(UploadRest(w, PassportOk))
    \/ \E w \in Workers : Step(GenerateRest(w))

SpecRegister == Init /\ [][NextRegister]_vars

(***************************************************************************)
(* SpecCreate: create_kyc_application among the other requests of the      *)
(* applicants, one request at a time: document-list generation, uploads of *)
(* every kind, process.                                                    *)
(***************************************************************************)
NextCreate ==
    \/ \E c \in Cases : Alone(MaxRequests, CreateFind(1, c))
    \/ Step(InsertCase(1))
    \/ \E c \in Cases : Alone(MaxRequests, generate_document_requirements(c))
    \/ \E c \in Cases, d \in DocInputs : Alone(MaxRequests, upload_document(c, d))
    \/ \E c \in Cases : Alone(MaxRequests, ProcessLoad(1, c))
    \/ \E ocr \in OcrOutcomes : Step(ProcessValidate(1, ocr))
    \/ \E risk \in Signals : Step(ProcessSignals(1, risk, NoValue, NoEmbedding))
    \/ Step(ProcessDecide(1))
    \/ Step(ProcessVerify(1, TRUE))

SpecCreate == Init /\ [][NextCreate]_vars

(***************************************************************************)
(* Properties.                                                             *)
(***************************************************************************)
StoreAndLogs == <<apps, documents, verifications, audit_records, chain, embeddings_cache>>

\* The step with which the process request of worker w completes, past claim validation
ProcessCompletes(w) ==
    /\ req[w].pc \in {"p_decide", "p_verify"}
    /\ req'[w] = Done("process: ok", req[w].kyc)

\* C1: after a process call that passes claim validation and completes, the case is
\* VERIFIED if and only if no duplicate was detected and the risk probability used for
\* the decision is below 0.30; otherwise it is IN_REVIEW.
C1_AutoApprovalIffCleanAndLowRisk ==
    [][\A w \in Workers :
          ProcessCompletes(w) =>
             LET c == req[w].kyc
             IN /\ apps'[c].status \in {"VERIFIED", "IN_REVIEW"}
                /\ apps'[c].status = "VERIFIED"
                      <=> (req[w].dup = NoUkn /\ req[w].risk < AutoApproveBelow)]_vars

\* C1 witness: one case auto-approved at risk 0.10, the other sent to review at the
\* threshold 0.30, both by process.
C1_Witness ==
    /\ apps[1].status = "VERIFIED" /\ apps[1].risk_score = 10
    /\ apps[1].reviewer_comment = <<"Auto-approved: Low risk score">>
    /\ apps[2].status = "IN_REVIEW" /\ apps[2].risk_score = 30
    /\ req[1] = Done("process: ok", 2)

\* The ledger records process anchored for case c
SystemBlocks(c) ==
    { i \in 1..Len(chain) :
         chain[i].data.document_hashes[2] = c /\ chain[i].data.issuer = "system" }

\* C2: when two process calls run concurrently on the same case, at most one unique
\* number is issued for the case and at most one ledger record is anchored for it.
C2_OneIssuancePerCase ==
    \A c \in Cases : Cardinality(SystemBlocks(c)) <= 1

\* The last decision recorded on case c is a reviewer's
ReviewerDecided(c) ==
    /\ verifications[c] # <<>>
    /\ verifications[c][Len(verifications[c])].performed_by \in Reviewers
    /\ apps[c].status \in {"VERIFIED", "REJECTED"}

\* C3: when a process call and a reviewer's approve or reject race on a case committed
\* as PROCESSING, exactly one takes effect: once the reviewer's decision is committed,
\* the process call changes neither the case, nor the ledger, nor the logs.
C3_ProcessYieldsToReviewer ==
    [][\A w \in Workers :
          (/\ req[w].pc \in {"p_signals", "p_decide", "p_verify"}
           /\ ReviewerDecided(req[w].kyc)
           /\ req'[w] # req[w])
          => UNCHANGED StoreAndLogs]_vars

\* C4: across any sequence of upload, process, approve and reject operations, a unique
\* number that is set never changes and is never replaced by a newly generated one.
C4_UknImmutable ==
    [][\A c \in Cases : apps[c].ukn # NoUkn => apps'[c].ukn = apps[c].ukn]_vars

\* C5: in every reachable state, also when approvals of different cases run concurrently
\* and draw the same number, no two cases hold the same unique number.
C5_UknUnique ==
    \A c1, c2 \in Cases :
        (c1 # c2 /\ apps[c1].ukn # NoUkn) => apps[c1].ukn # apps[c2].ukn

\* C5 witness: two approvals in flight drew the same number; one case holds it and the
\* other request ended on the store's refusal.
C5_Witness ==
    \E w \in Workers, c \in Cases :
        /\ req[w].result \in {"process: integrity error", "approve: integrity error"}
        /\ req[w].kyc = c
        /\ apps[c].ukn = NoUkn
        /\ \E c2 \in Cases \ {c} : apps[c2].ukn # NoUkn /\ apps[c2].status = "VERIFIED"

\* C6: in every reachable state, a case's unique number is non-null if and only if the
\* case's status is VERIFIED.
C6_UknIffVerified ==
    \A c \in Cases : apps[c].ukn # NoUkn <=> apps[c].status = "VERIFIED"

\* C7: every VERIFIED case has expires_at equal to verified_at plus exactly 365 days.
C7_ExpiryIsVerifiedPlusValidity ==
    \A c \in Cases :
        apps[c].status = "VERIFIED" => apps[c].expires_at = apps[c].verified_at + Validity

\* C8: process on a case that is already VERIFIED is refused and changes nothing (status,
\* number, dates, ledger, logs), however many times it is repeated: the call ends at its
\* status check, with nothing written.
C8_ProcessOnVerifiedIsRefused ==
    [][\A w \in Workers, c \in Cases :
          (apps[c].status = "VERIFIED" /\ ProcessLoad(w, c))
          => /\ req'[w] = Done("process: already processed", c)
             /\ UNCHANGED <<StoreAndLogs, now>>]_vars

\* C8 witness: process was called twice on a VERIFIED case and refused both times; the
\* case has its one number, its one ledger record and the events of its verification.
C8_Witness ==
    \E c \in Cases :
        /\ apps[c].status = "VERIFIED" /\ apps[c].ukn # NoUkn
        /\ req[1] = Done("process: already processed", c)
        /\ reqs = 4
        /\ Len(documents[c]) = 1
        /\ Len(chain) = 1 /\ chain[1].data.ukn = apps[c].ukn
        /\ Len(audit_records[c]) = 2
        /\ \A c2 \in Cases \ {c} : apps[c2].status = "ABSENT"

\* The fingerprint stored for case c
FingerprintOf(c) == get_embedding(embeddings_cache, <<"id", c>>)

\* Another case, VERIFIED with a unique number, has a stored fingerprint within the
\* threshold of case c's
HasVerifiedLookalike(c) ==
    \E c2 \in Cases \ {c} :
        /\ apps[c2].status = "VERIFIED" /\ apps[c2].ukn # NoUkn
        /\ FingerprintOf(c) # NoEmbedding /\ FingerprintOf(c2) # NoEmbedding
        /\ AtLeastThreshold(cosine_similarity(FingerprintOf(c), FingerprintOf(c2)))

\* C9: if process completes for a case whose fingerprint has cosine similarity >= 0.85
\* with the stored fingerprint of another VERIFIED case with a unique number, the case
\* ends IN_REVIEW, whatever its risk probability.
C9_LookalikeGoesToReview ==
    [][\A w \in Workers :
          (ProcessCompletes(w) /\ HasVerifiedLookalike(req[w].kyc))
          => apps'[req[w].kyc].status = "IN_REVIEW"]_vars

\* C10: check_duplicate reports a duplicate iff the largest cosine similarity over the
\* candidates is >= 0.85, returns that largest similarity, and on a duplicate the number
\* of the first candidate attaining it; for no candidates: no duplicate, no match, 0.
C10_CheckDuplicateContract ==
    answer # NoAnswer =>
        LET new == probe.new_embedding
            cands == probe.existing_embeddings
            sim(i) == cosine_similarity(new, cands[i])
        IN IF cands = <<>>
           THEN answer = [is_duplicate |-> FALSE, matched_ukn |-> NoUkn, similarity |-> <<0, 1>>]
           ELSE \E m \in 1..Len(cands) :
                   /\ \A j \in 1..Len(cands) : ~SimLess(sim(m), sim(j))
                   /\ \A j \in 1..(m - 1) : SimLess(sim(j), sim(m))
                   /\ answer.similarity = sim(m)
                   /\ answer.is_duplicate = AtLeastThreshold(sim(m))
                   /\ answer.matched_ukn = IF AtLeastThreshold(sim(m)) THEN m ELSE NoUkn

\* C10 witness: three candidates, the last two tied at the largest similarity, which is
\* over the threshold: the second is reported.
C10_Witness ==
    /\ Len(probe.existing_embeddings) = 3
    /\ answer.is_duplicate /\ answer.matched_ukn = 2
    /\ SimEq(cosine_similarity(probe.new_embedding, probe.existing_embeddings[3]),
             answer.similarity)
    /\ SimLess(cosine_similarity(probe.new_embedding, probe.existing_embeddings[1]),
               answer.similarity)

\* The validation step of the process request of worker w, the Claim Validator failing
\* on the identity document (on the fields extracted by then)
ValidationFailsAt(w) ==
    LET r == req[w]
        c == r.kyc
    IN /\ r.pc = "p_validate" /\ req'[w].pc # "p_validate"
       /\ r.id_doc # NoDoc /\ r.user_details
       /\ ~validate_user_details(documents'[c][IdDocIndex(documents[c])].extracted,
                                 r.id_doc.matches)

\* C11: if the Claim Validator fails on the primary identity document, process sets the
\* case to REJECTED with the validator's reasons attached and stops: the case does not
\* enter PROCESSING in that call, no risk score is computed, no unique number is issued
\* and nothing is anchored.
C11_ValidatorFailureRejectsAndStops ==
    [][\A w \in Workers :
          ValidationFailsAt(w) =>
             LET c == req[w].kyc
             IN /\ apps'[c].status = "REJECTED"
                /\ apps'[c].reviewer_comment = <<"Application rejected: Details do not match">>
                /\ req'[w] = Done("process: rejected", c)
                /\ apps[c].status # "PROCESSING"
                /\ apps'[c].risk_score = apps[c].risk_score
                /\ apps'[c].ukn = apps[c].ukn
                /\ chain' = chain]_vars

\* C11 witness: process ended on the rejection of a case whose passport does not match
\* the entered details; the case has no risk score and no number, the ledger is empty.
C11_Witness ==
    \E c \in Cases :
        /\ req[1] = Done("process: rejected", c)
        /\ apps[c].status = "REJECTED"
        /\ apps[c].reviewer_comment = <<"Application rejected: Details do not match">>
        /\ documents[c] = <<[doc_type |-> "PASSPORT", extracted |-> TRUE, matches |-> FALSE]>>
        /\ apps[c].risk_score = NoValue /\ apps[c].ukn = NoUkn
        /\ chain = <<>>

\* C12: process on a case that has no Evidence Item fails with the no-evidence error and
\* leaves the case, its events, the audit log and the ledger unchanged.
C12_ProcessWithoutEvidenceIsRefused ==
    [][\A w \in Workers, c \in Cases :
          (apps[c].status # "ABSENT" /\ documents[c] = <<>> /\ ProcessLoad(w, c))
          => /\ req'[w] = Done("process: no documents", c)
             /\ UNCHANGED <<StoreAndLogs, now>>]_vars

\* C12 witness: process was called on a registered case without documents and ended on
\* the no-evidence error; the case is as it was registered, with no event and no record.
C12_Witness ==
    \E c \in Cases :
        /\ req[1] = Done("process: no documents", c)
        /\ apps[c] = NewApp
        /\ documents[c] = <<>>
        /\ verifications[c] = <<>> /\ audit_records[c] = <<>>
        /\ chain = <<>>

\* An approve or reject request of worker w ends refused
RefusedAt(w) ==
    /\ req'[w].pc = "idle"
    /\ req'[w].result \in {"approve: not found", "approve: cannot approve",
                           "reject: not found", "reject: cannot reject",
                           "reject: comment required"}

\* C13: approve and reject succeed only when the case is IN_REVIEW, PROCESSING or
\* REQUEST_INFO; from every other status they fail with an error and leave the case, the
\* ledger and both logs unchanged.
C13_DecisionsOnlyFromReviewableStatuses ==
    [][\A w \in Workers, c \in Cases :
          LET reviewable == apps[c].status \in {"IN_REVIEW", "PROCESSING", "REQUEST_INFO"}
          IN /\ \A rv \in Reviewers, cm \in ApproveComments :
                   (~reviewable /\ ApproveLoad(w, c, rv, cm))
                   => RefusedAt(w) /\ UNCHANGED <<StoreAndLogs, now>>
             /\ \A rv \in Reviewers, cm \in RejectComments :
                   (~reviewable /\ reject_kyc_application(w, c, rv, cm))
                   => RefusedAt(w) /\ UNCHANGED <<StoreAndLogs, now>>]_vars

\* C13 witness: a reviewer approved a case that was IN_REVIEW, and a reject of the case,
\* now VERIFIED, was refused: the case is as the approval left it.
C13_Witness ==
    \E c \in Cases :
        /\ req[1] = Done("reject: cannot reject", c)
        /\ apps[c].status = "VERIFIED" /\ apps[c].ukn # NoUkn
        /\ verifications[c][Len(verifications[c])] = Event("verification", "rev1")
        /\ Len(chain) = 1 /\ Len(audit_records[c]) = 2

\* C14: a case in FLAGGED is reviewer-resolvable: from FLAGGED a reviewer's approve is
\* accepted and moves the case to VERIFIED, and a reviewer's reject (with a comment)
\* moves it to REJECTED.
C14_FlaggedIsReviewerResolvable ==
    [][\A w \in Workers, c \in Cases, rv \in Reviewers :
          apps[c].status = "FLAGGED" =>
             /\ \A cm \in ApproveComments :
                   ApproveLoad(w, c, rv, cm) => req'[w].pc = "a_commit"
             /\ \A cm \in RejectComments \ {NoComment} :
                   reject_kyc_application(w, c, rv, cm) => apps'[c].status = "REJECTED"
             /\ (req[w].pc = "a_commit" /\ req[w].kyc = c /\ req'[w] = Done("approve: ok", c))
                => apps'[c].status = "VERIFIED"]_vars

\* C15: once a case is VERIFIED or REJECTED, no subsequent operation (evidence upload,
\* process, document-list regeneration, approve, reject) changes its status; in
\* particular no case goes from REJECTED to VERIFIED.
C15_DecidedStatusIsFinal ==
    [][\A c \in Cases :
          apps[c].status \in {"VERIFIED", "REJECTED"}
          => apps'[c].status = apps[c].status]_vars

\* The step with which the approve request of worker w succeeds
ApproveSucceeds(w) ==
    /\ req[w].pc = "a_commit"
    /\ req'[w] = Done("approve: ok", req[w].kyc)

\* C16: a successful approve by reviewer r leaves the case VERIFIED with a non-null unique
\* number and verified_at and expires_at set, a ledger record anchored for that number
\* with issuer r, that record's receipt stored on the case, and a verification event and
\* an audit record that name r.
C16_ApproveEffects ==
    [][\A w \in Workers :
          ApproveSucceeds(w) =>
             LET c == req[w].kyc
                 r == req[w].reviewer
                 block == chain'[Len(chain')]
             IN /\ apps'[c].status = "VERIFIED"
                /\ apps'[c].ukn # NoUkn
                /\ apps'[c].verified_at # NoValue /\ apps'[c].expires_at # NoValue
                /\ Len(chain') = Len(chain) + 1
                /\ block.data.ukn = apps'[c].ukn
                /\ block.data.issuer = r
                /\ apps'[c].blockchain_tx_hash = block.tx_hash
                /\ verifications'[c] = Append(verifications[c], Event("verification", r))
                /\ audit_records'[c] = Append(audit_records[c],
                                              [event_type |-> "verification", reviewer_id |-> r])]_vars

\* C16 witness: rev1 approved a case that was in review; the case is VERIFIED with its
\* number, its dates and the receipt of the one ledger record, whose issuer is rev1.
C16_Witness ==
    \E c \in Cases :
        /\ req[1] = Done("approve: ok", c)
        /\ apps[c].status = "VERIFIED" /\ apps[c].ukn # NoUkn
        /\ apps[c].verified_at # NoValue /\ apps[c].expires_at # NoValue
        /\ Len(chain) = 1
        /\ chain[1].data.issuer = "rev1" /\ chain[1].data.ukn = apps[c].ukn
        /\ chain[1].tx_hash = apps[c].blockchain_tx_hash
        /\ verifications[c][Len(verifications[c])] = Event("verification", "rev1")
        /\ audit_records[c][Len(audit_records[c])].reviewer_id = "rev1"

\* C17: reject requires a non-empty comment: a reject call whose comment is missing or
\* empty is refused and leaves the case unchanged, and a reject with a non-empty comment
\* from IN_REVIEW, PROCESSING or REQUEST_INFO sets REJECTED carrying that comment.
C17_RejectRequiresComment ==
    [][\A w \in Workers, c \in Cases, rv \in Reviewers, cm \in RejectComments :
          reject_kyc_application(w, c, rv, cm) =>
             IF cm \in {NoComment, ""}
             THEN req'[w].result # "reject: ok" /\ apps'[c] = apps[c]
             ELSE apps[c].status \in ReviewableStatuses
                  => (/\ apps'[c].status = "REJECTED"
                      /\ apps'[c].reviewer_comment = <<cm>>)]_vars

\* process, approve or reject (not an upload) changes the status of case c to a
\* decision outcome
DecisionOn(c) ==
    /\ apps'[c].status # apps[c].status
    /\ apps'[c].status \in {"VERIFIED", "IN_REVIEW", "REJECTED"}
    /\ documents'[c] = documents[c]

\* C18: every operation that changes a case's status to a decision outcome (VERIFIED,
\* IN_REVIEW or REJECTED, by process, approve or reject) appends both a Verification
\* Event and a separate audit record for that status change.
C18_DecisionsAreLoggedTwice ==
    [][\A c \in Cases :
          DecisionOn(c) =>
             /\ Len(verifications'[c]) > Len(verifications[c])
             /\ Len(audit_records'[c]) > Len(audit_records[c])]_vars

\* The ledger holds a record for the unique number of case c whose receipt is the one
\* stored on the case
Anchored(c) ==
    \E i \in 1..Len(chain) :
        /\ chain[i].data.ukn = apps[c].ukn
        /\ chain[i].tx_hash = apps[c].blockchain_tx_hash

\* The step at which the ledger call of the request of worker w raises
AnchoringFailsAt(w) ==
    /\ req[w].pc \in {"p_verify", "a_commit"}
    /\ req'[w].result \in {"process: anchoring failed", "approve: anchoring failed"}

\* C19: anchoring and status commit are one logical unit: in every committed state a case
\* is VERIFIED only if the ledger holds a record for its unique number whose receipt
\* equals the receipt stored on the case, and if anchoring fails the change to VERIFIED
\* (status, unique number, dates) is not committed.
C19_VerifiedOnlyIfAnchored ==
    /\ [](\A c \in Cases : apps[c].status = "VERIFIED" => Anchored(c))
    /\ [][\A w \in Workers : AnchoringFailsAt(w) => apps' = apps]_vars

\* The step with which the process request of worker w ends, one of its provider calls
\* having failed or returned nothing: the OCR of the identity document, the biometric
\* match, the fingerprint extraction, or the image quality and risk model
EndsAfterProviderFailure(w) ==
    LET r == req[w]
        c == r.kyc
    IN /\ req'[w].pc = "idle"
       /\ \/ r.pc = "p_validate" /\ Reextracts(r) /\ documents' = documents
          \/ /\ r.pc \in {"p_decide", "p_verify"}
             /\ \/ ~r.scored
                \/ r.selfie /\ r.id_doc # NoDoc /\ r.face = NoValue
                \/ r.face # NoValue /\ apps[c].face_embedding_hash = NoHash
       /\ req'[w].result \notin {"process: anchoring failed", "process: integrity error"}

\* C20: if a provider call within process (evidence extraction, biometric match,
\* fingerprint extraction, image quality, risk model) fails or returns empty, process
\* still completes with the case VERIFIED or IN_REVIEW: it returns no error for that
\* reason, does not leave the case PROCESSING, and a failed risk model leads to IN_REVIEW.
C20_ProviderFailureDegrades ==
    [][\A w \in Workers :
          EndsAfterProviderFailure(w) =>
             LET c == req[w].kyc
             IN /\ req'[w].result = "process: ok"
                /\ apps'[c].status \in {"VERIFIED", "IN_REVIEW"}
                /\ ~req[w].scored => apps'[c].status = "IN_REVIEW"]_vars

\* C21: unique-number issuance terminates: a request that has reached the issuance loop
\* leaves it, with a number or with a fatal error, also when every number of the
\* namespace is taken.
C21_IssuanceTerminates ==
    \A w \in Workers : (req[w].pc = "p_decide") ~> (req[w].pc # "p_decide")

\* The frames of a video that are analyzed, and the maximal runs of closed frames among
\* them: a run starts at a closed frame that is the first frame or follows a frame that
\* is not closed.
Analyzed(video) == MinOf(Len(video), FrameLimit)

ClosedRuns(video) ==
    { i \in 1..Analyzed(video) :
         video[i] = "closed" /\ (i = 1 \/ video[i - 1] # "closed") }

\* C22: for every sequence of per-frame eye states, video liveness analyzes only the
\* first FrameLimit frames and returns blinkCount equal to the number of maximal runs of
\* closed frames among them, isLive iff blinkCount >= 1, confidence min(1.0, blinkCount/2).
C22_BlinkCountIsClosedRuns ==
    (answer # NoAnswer /\ probe.opened) =>
        /\ answer.frames_analyzed = Analyzed(probe.video)
        /\ answer.blink_count = Cardinality(ClosedRuns(probe.video))
        /\ answer.is_live <=> answer.blink_count >= 1
        /\ answer.confidence = MinOf(100, 50 * answer.blink_count)

\* C22 witness: closed, open, closed, open, closed is two blinks among the first three
\* frames; the third run lies past the limit and is not counted.
C22_Witness ==
    /\ answer # NoAnswer /\ probe.opened
    /\ probe.video = <<"closed", "open", "closed", "open", "closed">>
    /\ answer.blink_count = 2 /\ answer.frames_analyzed = FrameLimit
    /\ answer.is_live /\ answer.confidence = 100

\* Captures that were opened and have frames: no frame shows a face; every frame shows
\* a face and none a blink
NoFaceCapture(video) == Len(video) > 0 /\ \A i \in 1..Len(video) : video[i] = "no_face"

FaceNoBlinkCapture(video) == Len(video) > 0 /\ \A i \in 1..Len(video) : video[i] = "open"

\* What upload_document leaves on a case whose only document is a selfie that showed a
\* face and no blink
FlaggedNotLive(app) ==
    app.status = "FLAGGED" /\ app.reviewer_comment = <<"Liveness check failed">>

\* C23: the absence of a detectable face is an outcome distinct from 'not live': for a
\* capture in which no frame has a detectable face, the liveness result differs from that
\* of every capture with a detected face and no blink, and so do the status and the
\* comment of the case it is uploaded to.
C23_NoFaceIsDistinctFromNotLive ==
    (answer # NoAnswer /\ probe.opened /\ NoFaceCapture(probe.video)) =>
        /\ \A v \in Videos :
              FaceNoBlinkCapture(v) => detect_liveness_from_video(TRUE, v) # answer
        /\ \A c \in Cases : Len(documents[c]) = 1 => ~FlaggedNotLive(apps[c])

\* The validator's reasons are the address reason alone: name, date of birth and gender
\* pass
FailsOnAddressOnly == answer # NoAnswer /\ answer.reasons = <<"address">>

CanonicalGender(g) ==
    IF g \in {Chars_M, Chars_MALE} THEN "MALE"
    ELSE IF g \in {Chars_F, Chars_FEMALE} THEN "FEMALE"
    ELSE "OTHER"

GenderReasonAdded == \E i \in 1..Len(answer.reasons) : answer.reasons[i] = "gender"

\* C25: when the evidence exposes a gender field, the gender check passes iff the claimed
\* and the extracted value normalize to the same member of {MALE, FEMALE, OTHER}, for
\* every pair of the synonyms M, MALE, F, FEMALE, O, OTHER; when the evidence has no
\* gender field no gender reason is added.
C25_GenderPassesIffSameCanonical ==
    (answer # NoAnswer /\ probe.user_details.address = NoText
                       /\ probe.user_details.name = probe.extracted_data.name) =>
        LET claimed == probe.user_details.gender
            extracted == probe.extracted_data.gender
        IN /\ (claimed \in GenderSynonyms /\ extracted \in GenderSynonyms) =>
                 (~GenderReasonAdded <=> CanonicalGender(claimed) = CanonicalGender(extracted))
           /\ extracted = <<>> => ~GenderReasonAdded

\* The claimed date as the single layout YYYY-MM-DD reads it, the extracted date as the
\* accepted formats or the fallback scan read it
ClaimedDate == strptime(probe.user_details.date_of_birth, "%Y-%m-%d")

ExtractedDate == _parse_date(probe.extracted_data.dob)

DobReasons == { i \in 1..Len(answer.reasons) : answer.reasons[i] # "name" }

\* C26: the date-of-birth check fails closed: it passes iff the claimed date parses as
\* YYYY-MM-DD, the extracted date parses under the accepted formats, and the two dates
\* are equal; if either side is missing or unparsable, or the dates differ by any amount,
\* one date-of-birth reason is appended (and the validator's verdict is negative).
C26_DobFailsClosed ==
    answer # NoAnswer =>
        LET passes == ClaimedDate # NoDate /\ ExtractedDate # NoDate
                         /\ ClaimedDate = ExtractedDate
        IN /\ passes <=> DobReasons = {}
           /\ ~passes => Cardinality(DobReasons) = 1 /\ ~answer.is_valid
           /\ probe.user_details.date_of_birth \in {EmptyText, BlankText} => ~passes
           /\ probe.extracted_data.dob \in {EmptyText, BlankText, JunkText} => ~passes

\* C26 witnesses: 2001-02-01 against "01/02/2001" passes; against "02/02/2001", one day
\* later, a mismatch reason is appended.
C26_Witness ==
    /\ answer # NoAnswer
    /\ probe.user_details.date_of_birth = Dob_2001_02_01
    /\ probe.extracted_data.dob =
          DateText("numeric", "/", Part(2, 2), Part(2, 2), Part(2001, 4), FALSE)
    /\ ExtractedDate = <<2001, 2, 2>>
    /\ answer.reasons = <<"dob: mismatch">>

\* The points of the checks that a document triggers
Points(triggered, points) == IF triggered THEN points ELSE 0

TriggeredPoints ==
    Points(probe.rapid_count > 10, 30) + Points(probe.large_amounts >= 1, 25)
    + Points(probe.round_numbers >= 1, 15) + Points(probe.cash_withdrawals > 5, 20)
    + Points(probe.negative_balance, 40) + Points(probe.duplicates >= 1, 35)

\* C27: for every combination of triggered checks on a document with at least one parsed
\* transaction, riskScore is min(100, sum of the triggered checks' points) and
\* isSuspicious holds iff riskScore >= 40; zero parsed transactions yields riskScore 50
\* and isSuspicious true.
C27_RiskScoreIsCappedSum ==
    answer # NoAnswer =>
        IF probe.transactions >= 1
        THEN /\ answer.risk_score = MinOf(100, TriggeredPoints)
             /\ answer.is_suspicious <=> answer.risk_score >= 40
        ELSE answer.risk_score = 50 /\ answer.is_suspicious

\* C27 witness: all six checks triggered, 165 points, capped at 100.
C27_Witness ==
    /\ answer # NoAnswer
    /\ TriggeredPoints = 165 /\ answer.factors = 6
    /\ answer.risk_score = 100 /\ answer.is_suspicious

\* The place of a feature in the declaration
DeclaredAt(feature) == CHOOSE i \in 1..Len(feature_names) : feature_names[i] = feature

\* C28: the attribution list contains each of the 8 declared features exactly once, with
\* its own value, ordered by non-increasing absolute attribution, ties in declaration
\* order.
C28_AttributionsSortedByImpact ==
    answer # NoAnswer =>
        /\ Len(answer) = 8
        /\ \A i \in 1..8 :
              Cardinality({ k \in 1..Len(answer) : answer[k].feature = feature_names[i] }) = 1
        /\ \A k \in 1..Len(answer) :
              answer[k].shap_value = probe[DeclaredAt(answer[k].feature)]
        /\ \A k \in 1..(Len(answer) - 1) :
              \/ AbsOf(answer[k].shap_value) > AbsOf(answer[k + 1].shap_value)
              \/ /\ AbsOf(answer[k].shap_value) = AbsOf(answer[k + 1].shap_value)
                 /\ DeclaredAt(answer[k].feature) < DeclaredAt(answer[k + 1].feature)

\* C28 witness: attributions 1, -1, 0, -2, 1, 0, -2, -1: the two features of magnitude 2
\* lead in declaration order, then the four of magnitude 1, then the two of magnitude 0.
C28_Witness ==
    /\ answer # NoAnswer
    /\ probe = <<1, 0 - 1, 0, 0 - 2, 1, 0, 0 - 2, 0 - 1>>
    /\ [k \in 1..8 |-> answer[k].feature] =
          <<"transaction_history_risk", "extraction_confidence", "face_match_confidence",
            "document_age_years", "id_quality_score", "name_match_score",
            "address_verification_score", "document_type_risk">>

\* A probability in hundredths
InUnitInterval(p) == p >= 0 /\ p <= 100

\* C29: every risk probability produced by the Risk Scorer, every value process
\* substitutes when scoring fails, and every risk score stored on a case lies in [0, 1].
C29_RiskScoresInUnitInterval ==
    /\ answer # NoAnswer => InUnitInterval(answer.risk_score)
    /\ \A w \in Workers :
          req[w].pc \in {"p_decide", "p_verify"} => InUnitInterval(req[w].risk)
    /\ \A c \in Cases : apps[c].risk_score # NoValue => InUnitInterval(apps[c].risk_score)

\* C29 witness: every tree answers high risk, the scorer returns 1.0, and process has
\* stored it on the case and sent the case to review.
C29_Witness ==
    /\ answer # NoAnswer /\ answer.risk_score = 100
    /\ apps[1].risk_score = 100 /\ apps[1].status = "IN_REVIEW"
    /\ req[1] = Done("process: ok", 1)

\* Everything a request can create or change: cases, documents, events, audit records,
\* ledger, fingerprints, consent records
AllRecords == <<StoreAndLogs, consent_records>>

\* A number text that is not "KYC-" and three blocks of four upper-case hexadecimal digits
MalformedUkns == { text \in UknTexts : text.form # "canonical" }

\* C30: a request with malformed input (a number not of the form KYC-XXXX-XXXX-XXXX on
\* resolve; an unsupported evidence kind or file type on upload) is rejected before any
\* state is created or changed: no case, document, event, audit record or consent record
\* results.
C30_MalformedInputChangesNothing ==
    [][/\ \A i \in Institutions, text \in MalformedUkns, p \in Purposes :
             resolve_kyc(1, i, text, p) =>
                /\ UNCHANGED AllRecords
                /\ req'[1].result \in {"resolve: invalid format", "resolve: not found"}
       /\ \A c \in Cases, ct \in ContentTypes, d \in UploadInputs :
             (UploadRequest(1, c, ct, d)
                /\ (ct = "application/pdf" \/ d.doc_type = "LIBRARY_CARD")) =>
                /\ UNCHANGED AllRecords
                /\ req'[1].result \in {"upload: unsupported file type",
                                       "upload: invalid document type"}]_vars

\* C30 witness: case 1 is verified under number 1 and untouched; the institution has
\* resolved the canonical text and holds a consent record, and its request with the same
\* digits in lower case has just been refused.
C30_Witness ==
    /\ apps[1].status = "VERIFIED" /\ apps[1].ukn = 1
    /\ consent_records = <<ConsentRecord(1, "bank", "loan_application", TRUE, now,
                                          now + ConsentPeriod)>>
    /\ req[1] = Done("resolve: not found", 0)

\* The verified cases holding the number a text writes, as the look-up of resolve finds them
VerifiedHolders(text) ==
    { c \in Cases : /\ apps[c].ukn # NoUkn /\ FormatUkn(apps[c].ukn) = text
                    /\ apps[c].status = "VERIFIED" }

\* C31: resolve_kyc returns a summary only for a number held by a case that is VERIFIED
\* and whose expires_at is not in the past; a well-formed number that no case holds, or
\* that only a case that is not VERIFIED holds, yields not-found; the number of a VERIFIED
\* case whose expires_at is in the past yields gone; and neither error creates a consent
\* record.
C31_ResolveOnlyForVerifiedUnexpired ==
    [][\A i \in Institutions, text \in InstitutionTexts, p \in Purposes :
          resolve_kyc(1, i, text, p) =>
             /\ req'[1].result = "resolve: ok" =>
                   /\ req'[1].kyc \in VerifiedHolders(text)
                   /\ apps[req'[1].kyc].expires_at >= now
             /\ (text.form = "canonical" /\ VerifiedHolders(text) = {}) =>
                   /\ req'[1].result = "resolve: not found"
                   /\ UNCHANGED AllRecords
             /\ (\E c \in VerifiedHolders(text) : apps[c].expires_at < now) =>
                   /\ req'[1].result = "resolve: expired"
                   /\ UNCHANGED AllRecords]_vars

\* C31 witness: case 2 is VERIFIED; the institution resolved its number during its
\* validity and holds the consent record of that; the validity has passed since, and the
\* institution has just been told that the case is gone.
C31_Witness ==
    /\ apps[2].status = "VERIFIED" /\ apps[2].expires_at < now
    /\ req[1] = Done("resolve: expired", 2)
    /\ Len(consent_records) = 1 /\ consent_records[1].kyc_id = 2

\* C32: in every reachable state an applicant has at most one case, also when create,
\* upload and document-list generation for the applicant are served together and each
\* found no case.
C32_OneCasePerApplicant == \A c \in Cases : apps[c].rows <= 1

\* C32 witness: a create and an upload of applicant 1 both found no case; the create
\* inserted the case, and the insert of the upload was refused by the store.
C32_Witness ==
    /\ apps[1].rows = 1
    /\ req[1] = Done("create: ok", 1)
    /\ req[2] = Done("upload: integrity error", 1)

\* The statuses of a case that is not decided
NonTerminalStatuses == {"DRAFT", "REGISTERED", "UPLOADED", "PROCESSING", "IN_REVIEW", "FLAGGED"}

\* C34: create_kyc_application for an applicant who has a case in a non-terminal status
\* (DRAFT, REGISTERED, UPLOADED, PROCESSING, IN_REVIEW, FLAGGED) is refused with the
\* "already have an active application" error and creates nothing; otherwise it creates
\* a case in REGISTERED.
C34_CreateRefusedIffActiveCase ==
    [][\A c \in Cases :
          /\ (CreateFind(1, c) /\ apps[c].status \in NonTerminalStatuses) =>
                /\ req'[1] = Done("create: already active", c)
                /\ UNCHANGED AllRecords
          /\ (InsertCase(1) /\ req[1].pc = "c_insert" /\ req[1].kyc = c) =>
                /\ apps'[c] = NewApp
                /\ req'[1] = Done("create: ok", c)]_vars

\* The log before is the beginning of the log after
IsPrefix(before, after) ==
    Len(before) <= Len(after) /\ \A i \in 1..Len(before) : after[i] = before[i]

\* C33: Verification Events and audit records are append-only: no operation updates or
\* deletes an entry, so across upload, process, approve and reject both logs only grow.
C33_LogsAreAppendOnly ==
    [][\A c \in Cases : /\ IsPrefix(verifications[c], verifications'[c])
                        /\ IsPrefix(audit_records[c], audit_records'[c])]_vars

\* C33 witness: case 1 was uploaded, processed into review and rejected by the reviewer;
\* the events and audit records of the upload are still the first of their logs.
C33_Witness ==
    /\ req[1] = Done("reject: ok", 1)
    /\ Len(verifications[1]) >= 3 /\ verifications[1][1] = Event("document_upload", "applicant")
    /\ Len(audit_records[1]) >= 2 /\ audit_records[1][1].event_type = "document_upload"
    /\ audit_records[1][Len(audit_records[1])].event_type = "rejection"

\* C35: whenever a biometric match score was computed, the biometric match confidence
\* handed to the Risk Scorer is that score, a score of 0 included; the neutral default
\* 0.85 is used only when no score was computed.
C35_FaceMatchConfidenceIsTheScore ==
    answer # NoAnswer =>
        answer.face_match_confidence =
            IF probe.face_match_score # NoValue THEN probe.face_match_score
            ELSE DefaultFaceMatchConfidence

\* C36: every case whose status is IN_REVIEW is returned by the review queue, whatever
\* its risk score (a case sent to review with a risk below 0.30 included), and no
\* VERIFIED case is returned.
C36_QueueHoldsEveryCaseInReview ==
    [][CallGetReviewQueue =>
          \A c \in Cases :
             /\ apps[c].status = "IN_REVIEW" => c \in answer'.applications
             /\ apps[c].status = "VERIFIED" => c \notin answer'.applications]_vars

C38_OneLedgerRecordPerUkn ==
    /\ \A i, j \in 1..Len(chain) : chain[i].data.ukn = chain[j].data.ukn => i = j
    /\ \A c \in Cases :
          (apps[c].status = "VERIFIED" /\ apps[c].ukn # NoUkn) =>
              get_ukn_record(apps[c].ukn).tx_hash = apps[c].blockchain_tx_hash

\* A consent that was given (by resolve or by grant: accessed_at is set) and has been
\* revoked since: only revoke_consent clears consent_given on such a row
IsRevoked(k) == ~consent_records[k].consent_given /\ consent_records[k].accessed_at # NoValue

\* C39: after the applicant revokes the consent record of an institution for a purpose,
\* resolve_kyc by that institution for that purpose does not return the applicant's data
\* until consent is granted again.
C39_RevokedConsentStopsResolve ==
    [][\A i \in Institutions, text \in IssuedTexts, p \in Purposes, c \in Cases :
          (/\ resolve_kyc(1, i, text, p)
           /\ HoldersOf(text) = {c}
           /\ \E k \in ConsentsOf(c, i, p) : IsRevoked(k)
           /\ \A k \in ConsentsOf(c, i, p) : ~consent_records[k].consent_given)
          => req'[1].result # "resolve: ok"]_vars

\* C40: after grant_consent succeeds on a consent record, validate_consent for the
\* record's institution and purpose reports has_consent = true, whatever the history of
\* the record: a pending request, or a consent that was revoked and is granted again.
\* The check is made at the instant of the grant.
C40_GrantedConsentValidates ==
    [][\A i \in Institutions, text \in IssuedTexts, p \in Purposes :
          (/\ validate_consent(1, i, text, p)
           /\ req[1].result = "grant: ok"
           /\ LET granted == consent_records[req[1].consent]
              IN /\ granted.kyc_id \in HoldersOf(text)
                 /\ granted.institution_id = i /\ granted.purpose = p
                 /\ granted.accessed_at = now)
          => req'[1].result = "validate: has consent"]_vars

====
